---- MODULE Spec2Model ----
(***************************************************************************)
(* Verification model of the deepseek2api gateway (go-ver):                *)
(*   - the account pool (internal/accounts/pool.go),                       *)
(*   - the per-request auth context (internal/auth),                       *)
(*   - the cloud-sync manager (internal/cloudsync/manager.go) and the      *)
(*     cloud-sync server it talks to (cloud-sync/internal/services).       *)
(* Strings whose whitespace matters are sequences of one-character         *)
(* strings, so that strings.TrimSpace is computed and not assumed.         *)
(***************************************************************************)
EXTENDS Integers, Sequences, FiniteSets, TLC

VARIABLES
    pool,      \* [Inst -> Pool]: accounts, active, refresh, maxAccounts
    cfg,       \* [Inst -> AppState.cfg]: Refresh, MaxActiveAccounts, ClaudeModelMapping
    mgr,       \* [Inst -> SyncManager]: version, cursor
    sync,      \* [Inst -> the sync task]: position in SyncOnce and its locals
    srv,       \* the cloud-sync server: sync_items rows and the highest event version
    req,       \* the HTTP handler in flight: position, AuthContext, bookkeeping
    held,      \* history: per account id, Acquires not yet matched by a Release
    reloaded,  \* history: reloadLocked has run since Init
    last,      \* history: the last pool or manager operation and what it returned
    pow,       \* the PoW cache, the clock it reads, and the solver call in flight
    svc        \* the completion orchestrator: attempt number, calls made, response

vars == <<pool, cfg, mgr, sync, srv, req, held, reloaded, last, pow, svc>>

-----------------------------------------------------------------------------
(* Bounds of the model                                                     *)

MaxSessions == 2     \* Acquire is not explored beyond this many open sessions
NumInst == 2         \* gateway instances sharing one cloud-sync server

Inst == 1..NumInst
Primary == CHOOSE i \in Inst : \A j \in Inst : i <= j

-----------------------------------------------------------------------------
(* Strings and accounts                                                    *)

Max(a, b) == IF a > b THEN a ELSE b
Min(a, b) == IF a < b THEN a ELSE b

IsSpace(c) == c = " "

RECURSIVE TrimLeft(_)
TrimLeft(s) ==
    IF s # <<>> /\ IsSpace(Head(s)) THEN TrimLeft(Tail(s)) ELSE s

RECURSIVE TrimRight(_)
TrimRight(s) ==
    IF s # <<>> /\ IsSpace(s[Len(s)]) THEN TrimRight(SubSeq(s, 1, Len(s) - 1)) ELSE s

TrimSpace(s) == TrimRight(TrimLeft(s))

\* The accounts the model draws rosters from.
AcctA == [Email |-> <<"a">>, Mobile |-> <<>>, Password |-> <<>>, Token |-> <<"t">>]
AcctB == [Email |-> <<" ", "b">>, Mobile |-> <<"9">>, Password |-> <<"p">>, Token |-> <<>>]
AcctC == [Email |-> <<" ">>, Mobile |-> <<"c", " ">>, Password |-> <<>>, Token |-> <<>>]
\* A second entry for the account of AcctA: the same email, padded
AcctD == [Email |-> <<"a", " ">>, Mobile |-> <<>>, Password |-> <<"p">>, Token |-> <<>>]

AccountUniverse == {AcctA, AcctB, AcctC, AcctD}

Rosters ==
    { <<>>, <<AcctA>>, <<AcctA, AcctB>>, <<AcctB, AcctC>>,
      <<AcctA, AcctB, AcctC>>, <<AcctA, AcctD>> }

AccountID(a) ==
    IF TrimSpace(a.Email) # <<>> THEN TrimSpace(a.Email) ELSE TrimSpace(a.Mobile)

IdUniverse == {AccountID(a) : a \in AccountUniverse}

SeqRange(s) == {s[i] : i \in 1..Len(s)}

RosterIds(accts) == {AccountID(a) : a \in SeqRange(accts)}

-----------------------------------------------------------------------------
(* The pool: pure operators on a Pool record                               *)

\* p.active[id] of a Go map: 0 for a missing key
Count(active, id) == IF id \in DOMAIN active THEN active[id] ELSE 0

SetCount(active, id, n) ==
    [k \in DOMAIN active \cup {id} |-> IF k = id THEN n ELSE active[k]]

DeleteKey(active, id) == [k \in DOMAIN active \ {id} |-> active[k]]

RECURSIVE SumCounts(_, _)
SumCounts(active, keys) ==
    IF keys = {} THEN 0
    ELSE LET k == CHOOSE x \in keys : TRUE
         IN active[k] + SumCounts(active, keys \ {k})

EmptyActive == [k \in {} |-> 0]

\* Acquire: the set of outcomes rand.Intn can produce
AcquireMut(p, exclude) ==
    IF Len(p.accounts) = 0
    THEN {[ok |-> FALSE, acct |-> <<>>, pool |-> p]}
    ELSE LET cands == {i \in 1..Len(p.accounts) : AccountID(p.accounts[i]) \notin exclude}
         IN IF cands = {}
            THEN {[ok |-> FALSE, acct |-> <<>>, pool |-> p]}
            ELSE {[ok |-> TRUE, acct |-> <<p.accounts[i]>>,
                   pool |-> [p EXCEPT !.active =
                       SetCount(@, AccountID(p.accounts[i]),
                                Count(@, AccountID(p.accounts[i])) + 1)]] : i \in cands}

Acquire(p, exclude) ==
    IF Len(p.accounts) = 0
    THEN {[ok |-> FALSE, acct |-> <<>>, pool |-> p]}
    ELSE LET filtered == {i \in 1..Len(p.accounts) :
                              AccountID(p.accounts[i]) \notin exclude}
             cands == IF filtered = {} THEN 1..Len(p.accounts) ELSE filtered
         IN {[ok |-> TRUE, acct |-> <<p.accounts[i]>>,
              pool |-> [p EXCEPT !.active =
                  SetCount(@, AccountID(p.accounts[i]),
                           Count(@, AccountID(p.accounts[i])) + 1)]] : i \in cands}

\* Release; a is <<>> for a nil pointer
ReleaseMut(p, a) ==
    IF a = <<>> THEN p
    ELSE LET id == AccountID(a[1])
         IN IF Count(p.active, id) > 0
            THEN [p EXCEPT !.active = SetCount(@, id, Count(@, id) - 1)]
            ELSE p

Release(p, a) ==
    IF a = <<>> THEN p
    ELSE LET id == AccountID(a[1])
         IN IF Count(p.active, id) > 1
            THEN [p EXCEPT !.active = SetCount(@, id, Count(@, id) - 1)]
            ELSE [p EXCEPT !.active = DeleteKey(@, id)]

ShuffleTruncateMut(accts, n) == {accts}

\* The rosters rand.Shuffle followed by accounts[:n] can leave
ShuffleTruncate(accts, n) ==
    {[k \in 1..n |-> accts[f[k]]] :
        f \in {g \in [1..n -> 1..Len(accts)] : \A x, y \in 1..n : x # y => g[x] # g[y]}}

reloadLockedMut(p, accounts, refresh, maxAccounts) ==
    LET m == IF maxAccounts <= 0 \/ maxAccounts > Len(accounts)
             THEN Len(accounts) ELSE maxAccounts
        kept == IF m < Len(accounts) THEN ShuffleTruncate(accounts, m) ELSE {accounts}
    IN {[accounts |-> r, active |-> p.active, refresh |-> refresh, maxAccounts |-> m] :
            r \in kept}

reloadLocked(p, accounts, refresh, maxAccounts) ==
    LET m == IF maxAccounts <= 0 \/ maxAccounts > Len(accounts)
             THEN Len(accounts) ELSE maxAccounts
        kept == IF m < Len(accounts) THEN ShuffleTruncate(accounts, m) ELSE {accounts}
    IN {[accounts |-> r,
         active |-> [id \in DOMAIN p.active \cap RosterIds(r) |-> p.active[id]],
         refresh |-> refresh, maxAccounts |-> m] : r \in kept}

snapshotConfigLocked(p) == p.accounts

UpdateRuntime(p, refresh, maxAccounts) ==
    reloadLocked(p, snapshotConfigLocked(p), refresh, maxAccounts)

GetStatusMut(p) ==
    [total |-> Len(p.accounts),
     available |-> Len(p.accounts) - SumCounts(p.active, DOMAIN p.active),
     in_use |-> SumCounts(p.active, DOMAIN p.active),
     active_sessions |-> SumCounts(p.active, DOMAIN p.active),
     max_accounts |-> p.maxAccounts]

GetStatus(p) ==
    [total |-> Len(p.accounts),
     available |-> Len(p.accounts) - Cardinality(DOMAIN p.active),
     in_use |-> Cardinality(DOMAIN p.active),
     active_sessions |-> SumCounts(p.active, DOMAIN p.active),
     max_accounts |-> p.maxAccounts]

\* NewPool: reloadLocked on an empty pool
NewPool(accounts, refresh, maxAccounts) ==
    reloadLocked([accounts |-> <<>>, active |-> EmptyActive, refresh |-> FALSE,
                  maxAccounts |-> 0], accounts, refresh, maxAccounts)

-----------------------------------------------------------------------------
(* Values the other parts of the state hold while they are not running     *)

DefaultMapping == [fast |-> "deepseek-chat", slow |-> "deepseek-chat"]

EmptyPool ==
    [accounts |-> <<>>, active |-> EmptyActive, refresh |-> FALSE, maxAccounts |-> 0]

accountsPath == <<"/deepseek2api/accounts">>
configPath == <<"/deepseek2api/config">>
otherPath == <<"/other">>

\* Metadata as the client holds it after JSON decoding into `any`.
\*   enc: "json" for a JSON object/array/null, "string" for a JSON string
\*        (the text of a JSON document, as the server's item rows carry it)
\*   k:   "accounts_obj" {"accounts": ...}, "accounts_arr" [...], "config" {...},
\*        "null"
\*   accounts: <<>> for a missing or null list, <<roster>> otherwise
\*   mapping: <<>> for a missing claude_model_mapping, <<m>> otherwise
Meta(enc, k, accounts, refresh, max, mapping) ==
    [enc |-> enc, k |-> k, accounts |-> accounts, refresh |-> refresh, max |-> max,
     mapping |-> mapping]

NullMeta == Meta("json", "null", <<>>, FALSE, 0, <<>>)

IdleReq == [pc |-> "idle"]

\* A sync manager that was constructed and has not run InitialSync yet.
\*   pc: "new", "idle" (between ticks), "list", "delta" (inside pullAndApply),
\*       "upsert", "resolve" (inside upsertWithConflictRetry)
\*   ctx: "tick" when pullAndApply was called by SyncOnce/InitialSync,
\*        "recover" when it was called after a conflict
\*   since, cursor, next, latest: the locals of pullAndApply and listResp
\*   which, accountsMeta, configMeta: the locals of pushLocalSnapshot
\*   ce: the ConflictError's ServerVersion, <<>> when there is none
\*   calls: the client calls made so far by the running invocation of
\*       upsertWithConflictRetry
NewSync ==
    [pc |-> "new", ctx |-> "tick", since |-> 0, cursor |-> 0, next |-> 0, latest |-> 0,
     which |-> accountsPath, accountsMeta |-> NullMeta, configMeta |-> NullMeta,
     ce |-> <<>>, calls |-> <<>>]

IdleSync == [NewSync EXCEPT !.pc = "idle"]
EmptySrv == [items |-> [p \in {} |-> 0], latest |-> 0]
NoOp == [op |-> "none"]

NoneHeld == [id \in IdUniverse |-> 0]

\* pow.NewCache: an empty map; the clock is a Unix second, hence positive.
NewCache == << >>
NoSolve == [pc |-> "idle"]
IdlePow == [now |-> 1, entries |-> NewCache, set |-> << >>, solve |-> NoSolve]
IdleSvc == [pc |-> "idle"]

MaxAccountsBound == 2    \* max_active_accounts is drawn from 0..MaxAccountsBound
MaxAccountsValues == 0..MaxAccountsBound

\* The exclude sets Acquire is called with: nil, one failed account, two, all
Excludes == { {}, {AccountID(AcctA)}, {AccountID(AcctA), AccountID(AcctB)}, IdUniverse }

Sessions(p) == SumCounts(p.active, DOMAIN p.active)

-----------------------------------------------------------------------------
(* SpecPool: the pool's exported operations, called in any order           *)

InitPool ==
    /\ \E r \in Rosters, rf \in BOOLEAN, mx \in MaxAccountsValues :
          /\ \E p \in NewPool(r, rf, mx) :
                pool = [i \in Inst |-> IF i = Primary THEN p ELSE EmptyPool]
          /\ cfg = [i \in Inst |-> [Refresh |-> rf, MaxActiveAccounts |-> mx,
                                    ClaudeModelMapping |-> DefaultMapping]]
    /\ mgr = [i \in Inst |-> [version |-> 0, cursor |-> 0]]
    /\ sync = [i \in Inst |-> NewSync]
    /\ srv = EmptySrv
    /\ req = IdleReq
    /\ held = NoneHeld
    /\ reloaded = FALSE
    /\ pow = IdlePow
    /\ svc = IdleSvc
    /\ last = NoOp

PoolAcquire(exclude) ==
    /\ SumCounts(held, IdUniverse) < MaxSessions
    /\ \E r \in Acquire(pool[Primary], exclude) :
          /\ pool' = [pool EXCEPT ![Primary] = r.pool]
          /\ held' = IF r.ok THEN [held EXCEPT ![AccountID(r.acct[1])] = @ + 1] ELSE held
          /\ last' = [op |-> "Acquire", exclude |-> exclude, ok |-> r.ok,
                      acct |-> r.acct, before |-> pool[Primary]]
    /\ UNCHANGED <<cfg, mgr, sync, srv, req, reloaded, pow, svc>>

PoolRelease(a) ==
    /\ pool' = [pool EXCEPT ![Primary] = Release(@, a)]
    /\ held' = IF a # <<>> /\ held[AccountID(a[1])] > 0
               THEN [held EXCEPT ![AccountID(a[1])] = @ - 1] ELSE held
    /\ last' = [op |-> "Release", acct |-> a,
                wasHeld |-> a # <<>> /\ held[AccountID(a[1])] > 0]
    /\ UNCHANGED <<cfg, mgr, sync, srv, req, reloaded, pow, svc>>

PoolReload(accounts, refresh, maxAccounts) ==
    /\ \E p \in reloadLocked(pool[Primary], accounts, refresh, maxAccounts) :
          pool' = [pool EXCEPT ![Primary] = p]
    /\ reloaded' = TRUE
    /\ last' = [op |-> "Reload", new |-> accounts, max |-> maxAccounts]
    /\ UNCHANGED <<cfg, mgr, sync, srv, req, held, pow, svc>>

PoolUpdateRuntime(refresh, maxAccounts) ==
    /\ \E p \in UpdateRuntime(pool[Primary], refresh, maxAccounts) :
          pool' = [pool EXCEPT ![Primary] = p]
    /\ reloaded' = TRUE
    /\ last' = [op |-> "UpdateRuntime", new |-> pool[Primary].accounts]
    /\ UNCHANGED <<cfg, mgr, sync, srv, req, held, pow, svc>>

PoolGetStatus ==
    /\ last' = [op |-> "GetStatus", status |-> GetStatus(pool[Primary])]
    /\ UNCHANGED <<pool, cfg, mgr, sync, srv, req, held, reloaded, pow, svc>>

NextPool ==
    \/ \E exclude \in Excludes : PoolAcquire(exclude)
    \/ \E a \in {<<>>} \cup {<<x>> : x \in AccountUniverse} : PoolRelease(a)
    \/ \E r \in Rosters, mx \in MaxAccountsValues :
          PoolReload(r, cfg[Primary].Refresh, mx)
    \/ \E rf \in BOOLEAN, mx \in MaxAccountsValues : PoolUpdateRuntime(rf, mx)
    \/ PoolGetStatus

SpecPool == InitPool /\ [][NextPool]_vars

-----------------------------------------------------------------------------
(* Claims about the pool                                                   *)

\* C1: with only Acquire and Release called (no reload), every counter entry
\* that exists is at least 1, also after a Release for an account without an
\* entry, and the counter of every account equals the number of its Acquires
\* not yet matched by a Release; so after a balanced sequence the map is empty.
C1_CounterPositiveAndBalanced ==
    ~reloaded =>
        /\ \A id \in DOMAIN pool[Primary].active : pool[Primary].active[id] >= 1
        /\ \A id \in IdUniverse : Count(pool[Primary].active, id) = held[id]
        /\ (held = NoneHeld => pool[Primary].active = EmptyActive)

\* C1 witness: a balanced sequence has just ended with the matching Release of
\* an account that had been acquired, and the map is empty again.
C1_Witness ==
    /\ ~reloaded
    /\ last.op = "Release" /\ last.wasHeld
    /\ held = NoneHeld
    /\ pool[Primary].active = EmptyActive

\* C2: in every reachable state, under any interleaving of Acquire, Release,
\* Reload and UpdateRuntime, every key of the in-use counter is the identifier
\* of an account of the current roster; right after Reload(new, _, _) the keys
\* are identifiers of new.
C2_CounterKeysInRoster ==
    /\ DOMAIN pool[Primary].active \subseteq RosterIds(pool[Primary].accounts)
    /\ last.op = "Reload" => DOMAIN pool[Primary].active \subseteq RosterIds(last.new)

\* C2 witness: an account acquired before a Reload that removed it from the
\* roster has just been released.
C2_Witness ==
    /\ last.op = "Release" /\ last.wasHeld
    /\ AccountID(last.acct[1]) \notin RosterIds(pool[Primary].accounts)
    /\ reloaded

\* C3: Acquire(exclude) returns ok=false iff the roster is empty; on ok=true
\* the returned account is in the roster, is not excluded whenever some roster
\* account is not excluded (and comes from the full roster otherwise), and the
\* counter of its id rises by exactly 1 while all other entries are unchanged.
C3_AcquireContract ==
    last.op = "Acquire" =>
        LET b == last.before
            ids == RosterIds(b.accounts)
        IN /\ (last.ok = FALSE) <=> (Len(b.accounts) = 0)
           /\ ~last.ok => last.acct = <<>> /\ pool[Primary] = b
           /\ last.ok =>
                LET id == AccountID(last.acct[1])
                IN /\ last.acct[1] \in SeqRange(b.accounts)
                   /\ (ids \ last.exclude # {} => id \notin last.exclude)
                   /\ pool[Primary].active = SetCount(b.active, id, Count(b.active, id) + 1)
                   /\ pool[Primary].accounts = b.accounts

\* C3 witness: every roster account was excluded and Acquire still returned
\* one of them.
C3_Witness ==
    /\ last.op = "Acquire" /\ last.ok
    /\ Len(last.before.accounts) >= 2
    /\ RosterIds(last.before.accounts) \subseteq last.exclude

-----------------------------------------------------------------------------
(* The auth context of one request (internal/auth) and the handlers        *)

\* EnsureToken: the outcomes for account a; the login request may fail or
\* return a token.  The pool itself is not changed.
EnsureToken(p, a) ==
    IF TrimSpace(a.Token) # <<>> /\ ~p.refresh
    THEN {[err |-> FALSE, acct |-> a]}
    ELSE IF TrimSpace(a.Password) = <<>>
            \/ (TrimSpace(a.Email) = <<>> /\ TrimSpace(a.Mobile) = <<>>)
         THEN IF TrimSpace(a.Token) # <<>>
              THEN {[err |-> FALSE, acct |-> a]}
              ELSE {[err |-> TRUE, acct |-> a]}
         ELSE {[err |-> TRUE, acct |-> a],
               [err |-> FALSE, acct |-> [a EXCEPT !.Token = <<"n">>]]}

NoIds == [id \in IdUniverse |-> 0]
OneId(id) == [k \in IdUniverse |-> IF k = id THEN 1 ELSE 0]
AddIds(f, g) == [k \in IdUniverse |-> f[k] + g[k]]

NilAC ==
    [nil |-> TRUE, UseConfigToken |-> FALSE, Account |-> <<>>, DeepSeekToken |-> <<>>,
     FailedAccounts |-> {}, Released |-> FALSE]

\* DetermineModeAndToken: key is "none" (no header), "pass" (a key that is not
\* in cfg.Keys) or "pool" (a configured key).  acq and rel count the pool
\* Acquires and Releases the call made, per account id.
DetermineModeAndToken(p, key) ==
    IF key = "none"
    THEN {[ac |-> NilAC, code |-> 401, pool |-> p, acq |-> NoIds, rel |-> NoIds]}
    ELSE IF key = "pass"
    THEN {[ac |-> [NilAC EXCEPT !.nil = FALSE, !.DeepSeekToken = <<"k">>],
           code |-> 0, pool |-> p, acq |-> NoIds, rel |-> NoIds]}
    ELSE UNION {
           IF ~r.ok
           THEN {[ac |-> NilAC, code |-> 429, pool |-> r.pool, acq |-> NoIds, rel |-> NoIds]}
           ELSE {IF e.err
                 THEN [ac |-> NilAC, code |-> 500, pool |-> Release(r.pool, r.acct),
                       acq |-> OneId(AccountID(r.acct[1])),
                       rel |-> OneId(AccountID(r.acct[1]))]
                 ELSE [ac |-> [NilAC EXCEPT !.nil = FALSE, !.UseConfigToken = TRUE,
                                            !.Account = <<e.acct>>,
                                            !.DeepSeekToken = TrimSpace(e.acct.Token)],
                       code |-> 0, pool |-> r.pool,
                       acq |-> OneId(AccountID(r.acct[1])), rel |-> NoIds]
                 : e \in EnsureToken(r.pool, r.acct[1])}
           : r \in Acquire(p, {}) }

ReleaseAccountIfNeeded(p, ac) ==
    IF ac.nil \/ ~ac.UseConfigToken \/ ac.Released
    THEN [pool |-> p, ac |-> ac, rel |-> NoIds]
    ELSE [pool |-> Release(p, ac.Account),
          ac |-> [ac EXCEPT !.Released = TRUE, !.Account = <<>>],
          rel |-> IF ac.Account = <<>> THEN NoIds ELSE OneId(AccountID(ac.Account[1]))]

SwitchAccount(p, ac) ==
    IF ac.nil \/ ~ac.UseConfigToken
    THEN {[ok |-> FALSE, pool |-> p, ac |-> ac, acq |-> NoIds, rel |-> NoIds]}
    ELSE LET had == ac.Account # <<>>
             failed == IF had THEN ac.FailedAccounts \cup {AccountID(ac.Account[1])}
                       ELSE ac.FailedAccounts
             p1 == IF had THEN Release(p, ac.Account) ELSE p
             rel1 == IF had THEN OneId(AccountID(ac.Account[1])) ELSE NoIds
             ac1 == [ac EXCEPT !.FailedAccounts = failed]
         IN UNION {
              IF ~r.ok
              THEN {[ok |-> FALSE, pool |-> r.pool,
                     ac |-> [ac1 EXCEPT !.Account = <<>>, !.DeepSeekToken = <<>>],
                     acq |-> NoIds, rel |-> rel1]}
              ELSE {IF e.err
                    THEN [ok |-> FALSE, pool |-> r.pool,
                          ac |-> [ac1 EXCEPT !.Account = <<>>, !.DeepSeekToken = <<>>],
                          acq |-> OneId(AccountID(r.acct[1])), rel |-> rel1]
                    ELSE [ok |-> TRUE, pool |-> r.pool,
                          ac |-> [ac1 EXCEPT !.Account = <<e.acct>>,
                                             !.DeepSeekToken = e.acct.Token],
                          acq |-> OneId(AccountID(r.acct[1])), rel |-> rel1]
                    : e \in EnsureToken(r.pool, r.acct[1])}
              : r \in Acquire(p1, failed) }

\* The handler returns: the deferred ReleaseAccountIfNeeded runs
HandlerReturn(r, p, ac, status, acq, rel) ==
    LET f == ReleaseAccountIfNeeded(p, ac)
    IN /\ pool' = [pool EXCEPT ![Primary] = f.pool]
       /\ req' = [r EXCEPT !.pc = "done", !.ac = f.ac, !.status = status,
                           !.acq = AddIds(@, acq), !.rel = AddIds(AddIds(@, rel), f.rel)]

HandlerKinds == {"chat", "messages", "tokens"}
CallerKeys == {"none", "pass", "pool"}
Bodies == {"badjson", "missing", "unknownmodel", "ok"}

\* The status the handler answers before any upstream call, 0 when it goes on
EarlyStatus(kind, body) ==
    IF body = "badjson" \/ body = "missing" THEN 400
    ELSE IF kind = "tokens" THEN 200
    ELSE IF kind = "chat" /\ body = "unknownmodel" THEN 503
    ELSE 0

\* The error messages of the handlers, word by word
InvalidToken == <<"invalid", "token", ".">>
FailedPoWChat ==
    <<"Failed", "to", "get", "PoW", "(", "invalid", "token", "or", "unknown", "error", ")", ".">>
FailedPoWMessages == <<"Failed", "to", "get", "PoW", ".">>

StageMessage(kind, stage) ==
    IF stage = "session" THEN InvalidToken
    ELSE IF kind = "chat" THEN FailedPoWChat
    ELSE FailedPoWMessages

\* Upstream calls of one request: CreateSession, GetPoW, the completion
\* request, and SwitchAccount in the session and in the PoW stage
NoCalls == [session |-> 0, pow |-> 0, completion |-> 0, swsession |-> 0, swpow |-> 0]
Called(r, what) == [r EXCEPT !.calls[what] = @ + 1]
StageFailed(r, stage) ==
    [r EXCEPT !.failed = stage, !.msg = StageMessage(r.kind, stage)]

\* OpenAIChat / ClaudeMessages / ClaudeTokens up to the first upstream call
ReqBegin(kind, key, body) ==
    /\ req.pc \in {"idle", "done"}
    /\ Sessions(pool[Primary]) < MaxSessions
    /\ LET r0 == [pc |-> "begin", kind |-> kind, ac |-> NilAC, status |-> 0,
                  acq |-> NoIds, rel |-> NoIds, base |-> pool[Primary].active,
                  calls |-> NoCalls, failed |-> "none", msg |-> << >>, key |-> key]
       IN \E d \in DetermineModeAndToken(pool[Primary], key) :
             IF d.code # 0
             THEN /\ pool' = [pool EXCEPT ![Primary] = d.pool]
                  /\ req' = [r0 EXCEPT !.pc = "done", !.status = d.code,
                                       !.acq = d.acq, !.rel = d.rel]
             ELSE IF EarlyStatus(kind, body) # 0
             THEN HandlerReturn(r0, d.pool, d.ac, EarlyStatus(kind, body), d.acq, d.rel)
             ELSE /\ pool' = [pool EXCEPT ![Primary] = d.pool]
                  /\ req' = [r0 EXCEPT !.pc = "session", !.ac = d.ac,
                                       !.acq = d.acq, !.rel = d.rel]
    /\ UNCHANGED <<cfg, mgr, sync, srv, held, reloaded, last, pow, svc>>

\* One upstream stage (CreateSession or GetPoW): first is the outcome of the
\* call, second the outcome of the retry that follows a successful SwitchAccount
ReqStage(stage, next, first, second) ==
    /\ req.pc = stage
    /\ LET r1 == Called(req, stage)
           r2 == Called(r1, "sw" \o stage)
       IN IF first
          THEN /\ req' = [r1 EXCEPT !.pc = next]
               /\ pool' = pool
          ELSE IF ~req.ac.UseConfigToken
          THEN HandlerReturn(StageFailed(r1, stage), pool[Primary], req.ac, 401, NoIds, NoIds)
          ELSE \E sw \in SwitchAccount(pool[Primary], req.ac) :
                  IF sw.ok /\ second
                  THEN /\ pool' = [pool EXCEPT ![Primary] = sw.pool]
                       /\ req' = [Called(r2, stage) EXCEPT
                                      !.pc = next, !.ac = sw.ac,
                                      !.acq = AddIds(@, sw.acq),
                                      !.rel = AddIds(@, sw.rel)]
                  ELSE HandlerReturn(
                           StageFailed(IF sw.ok THEN Called(r2, stage) ELSE r2, stage),
                           sw.pool, sw.ac, 401, sw.acq, sw.rel)
    /\ UNCHANGED <<cfg, mgr, sync, srv, held, reloaded, last, pow, svc>>

ReqSession(first, second) == ReqStage("session", "pow", first, second)

ReqPow(first, second) == ReqStage("pow", "completion", first, second)

\* The completion call (stream or JSON) and the handler's return
ReqCompletion(status) ==
    /\ req.pc = "completion"
    /\ HandlerReturn(Called(req, "completion"), pool[Primary], req.ac, status, NoIds, NoIds)
    /\ UNCHANGED <<cfg, mgr, sync, srv, held, reloaded, last, pow, svc>>

NextReq ==
    \/ \E kind \in HandlerKinds, key \in CallerKeys, body \in Bodies :
          ReqBegin(kind, key, body)
    \/ \E first \in BOOLEAN, second \in BOOLEAN : ReqSession(first, second)
    \/ \E first \in BOOLEAN, second \in BOOLEAN : ReqPow(first, second)
    \/ \E status \in {200, 502} : ReqCompletion(status)

SpecReq == InitPool /\ [][NextReq]_vars

\* C4: when a pool-mode handler returns, whatever its outcome, every account
\* acquired for the request has been released exactly once, and (no Reload,
\* no other request) the in-use counter equals the counter before the request.
C4_EveryAcquireReleased ==
    req.pc = "done" =>
        /\ req.acq = req.rel
        /\ pool[Primary].active = req.base

\* Holds on every path of the handlers: no account is released more often
\* than it was acquired for the request.
NeverReleasedTwice ==
    \A id \in IdUniverse : req.pc # "idle" => req.rel[id] <= req.acq[id]

-----------------------------------------------------------------------------
(* Cloud sync: items, metadata and applyItems (cloudsync/manager.go)       *)

\* pushLocalSnapshot: accountsMeta and configMeta
AccountsMeta(roster) == Meta("json", "accounts_obj", <<roster>>, FALSE, 0, <<>>)
ConfigMeta(c) ==
    Meta("json", "config", <<>>, c.Refresh, c.MaxActiveAccounts, <<c.ClaudeModelMapping>>)

decodeAccounts(v) ==
    IF v.enc = "string" THEN [err |-> TRUE, accounts |-> <<>>]
    ELSE IF v.k = "accounts_obj" /\ v.accounts # <<>>
         THEN [err |-> FALSE, accounts |-> v.accounts]
    ELSE IF v.k = "accounts_arr" THEN [err |-> FALSE, accounts |-> v.accounts]
    ELSE IF v.k = "null" THEN [err |-> FALSE, accounts |-> <<>>]
    ELSE [err |-> TRUE, accounts |-> <<>>]

decodeConfigPayload(v) ==
    IF v.enc = "string" \/ v.k = "accounts_arr"
    THEN [err |-> TRUE, cfg |-> <<>>]
    ELSE LET f == IF v.k = "config" THEN v ELSE NullMeta
         IN [err |-> FALSE,
             cfg |-> <<[Refresh |-> f.refresh, MaxActiveAccounts |-> f.max,
                        ClaudeModelMapping |->
                            IF f.mapping = <<>> THEN DefaultMapping ELSE f.mapping[1]]>>]

Item(path, version, deleted, meta) ==
    [Path |-> path, Version |-> version, Deleted |-> deleted, Metadata |-> meta]

setVersion(m, v) == IF v > m.version THEN [m EXCEPT !.version = v] ELSE m

\* The loop of applyItems from item k on; a is
\* [ra: remoteAccounts, rc: remoteCfg, m: the manager, err]
RECURSIVE applyLoop(_, _, _)
applyLoop(items, k, a) ==
    IF k > Len(items) THEN a
    ELSE LET item == items[k]
             path == TrimSpace(item.Path)
             da == decodeAccounts(item.Metadata)
             dc == decodeConfigPayload(item.Metadata)
             bump == [a EXCEPT !.m = IF item.Version > a.m.version
                                     THEN setVersion(a.m, item.Version) ELSE a.m]
         IN IF item.Deleted THEN applyLoop(items, k + 1, a)
            ELSE IF path = accountsPath
                 THEN IF da.err THEN [a EXCEPT !.err = TRUE]
                      ELSE applyLoop(items, k + 1, [bump EXCEPT !.ra = da.accounts])
            ELSE IF path = configPath
                 THEN IF dc.err THEN [a EXCEPT !.err = TRUE]
                      ELSE applyLoop(items, k + 1, [bump EXCEPT !.rc = dc.cfg])
            ELSE applyLoop(items, k + 1, bump)

\* AppState.UpdateSyncRuntime
UpdateSyncRuntime(c, refresh, maxActiveAccounts, mapping) ==
    [c EXCEPT !.Refresh = refresh, !.MaxActiveAccounts = maxActiveAccounts,
              !.ClaudeModelMapping = mapping]

applyItemsMut(st, items) ==
    LET a == applyLoop(items, 1, [ra |-> <<>>, rc |-> <<>>, m |-> st.m, err |-> FALSE])
        c1 == IF a.rc # <<>>
              THEN UpdateSyncRuntime(st.cfg, a.rc[1].Refresh, a.rc[1].MaxActiveAccounts,
                                     a.rc[1].ClaudeModelMapping)
              ELSE st.cfg
        toApply == IF a.ra = <<>> THEN <<>> ELSE a.ra[1]
    IN IF a.err
       THEN {[err |-> TRUE, m |-> a.m, cfg |-> st.cfg, pool |-> st.pool]}
       ELSE {[err |-> FALSE, m |-> a.m, cfg |-> c1, pool |-> p2] :
                p2 \in reloadLocked(st.pool, toApply, c1.Refresh, c1.MaxActiveAccounts)}

\* applyItems on st = [m, cfg, pool]: the set of outcomes [err, m, cfg, pool]
\* (a set because Pool.Reload may shuffle)
applyItems(st, items) ==
    LET a == applyLoop(items, 1, [ra |-> <<>>, rc |-> <<>>, m |-> st.m, err |-> FALSE])
        c1 == IF a.rc # <<>>
              THEN UpdateSyncRuntime(st.cfg, a.rc[1].Refresh, a.rc[1].MaxActiveAccounts,
                                     a.rc[1].ClaudeModelMapping)
              ELSE st.cfg
        toApply == IF a.ra = <<>> THEN snapshotConfigLocked(st.pool) ELSE a.ra[1]
    IN IF a.err
       THEN {[err |-> TRUE, m |-> a.m, cfg |-> st.cfg, pool |-> st.pool]}
       ELSE IF a.rc # <<>> \/ a.ra # <<>>
       THEN {[err |-> FALSE, m |-> a.m, cfg |-> c1, pool |-> p2] :
                p2 \in reloadLocked(st.pool, toApply, c1.Refresh, c1.MaxActiveAccounts)}
       ELSE {[err |-> FALSE, m |-> a.m, cfg |-> st.cfg, pool |-> st.pool]}

-----------------------------------------------------------------------------
(* SpecApply: applyItems called on a manager state with a batch of items   *)

PaddedAccountsPath == <<" ", "/deepseek2api/accounts">>
CustomMapping == [fast |-> "deepseek-reasoner", slow |-> "deepseek-chat"]

\* The items the batches are made of: both accounts encodings, an empty and a
\* null roster, a payload that does not decode, a deleted item, two config
\* items (with and without claude_model_mapping) and an item of another path.
ItemPool ==
    { Item(accountsPath, 2, FALSE, AccountsMeta(<<AcctB>>)),
      Item(PaddedAccountsPath, 1, FALSE,
           Meta("json", "accounts_arr", << <<AcctA, AcctB, AcctC>> >>, FALSE, 0, <<>>)),
      Item(accountsPath, 1, FALSE, NullMeta),
      Item(accountsPath, 3, FALSE, [AccountsMeta(<<AcctA>>) EXCEPT !.enc = "string"]),
      Item(accountsPath, 3, TRUE, AccountsMeta(<<>>)),
      Item(configPath, 2, FALSE, Meta("json", "config", <<>>, TRUE, 1, <<>>)),
      Item(configPath, 1, FALSE, Meta("json", "config", <<>>, FALSE, 0, <<CustomMapping>>)),
      Item(otherPath, 3, FALSE, NullMeta) }

MaxBatch == 2

ApplyBatches == UNION { [1..n -> ItemPool] : n \in 0..MaxBatch }

\* The manager's version before the call: 0 or the version of an item that an
\* earlier call applied
InitApply ==
    /\ \E r \in Rosters, rf \in BOOLEAN, mx \in MaxAccountsValues :
          /\ \E p \in NewPool(r, rf, mx) :
                pool = [i \in Inst |-> IF i = Primary THEN p ELSE EmptyPool]
          /\ cfg = [i \in Inst |-> [Refresh |-> rf, MaxActiveAccounts |-> mx,
                                    ClaudeModelMapping |-> DefaultMapping]]
    /\ \E v \in {0} \cup {it.Version : it \in ItemPool} :
          mgr = [i \in Inst |-> [version |-> IF i = Primary THEN v ELSE 0, cursor |-> 0]]
    /\ sync = [i \in Inst |-> IdleSync]
    /\ srv = EmptySrv
    /\ req = IdleReq
    /\ held = NoneHeld
    /\ reloaded = FALSE
    /\ pow = IdlePow
    /\ svc = IdleSvc
    /\ \E items \in ApplyBatches : last = [op |-> "batch", items |-> items]

ApplyBatch ==
    /\ last.op = "batch"
    /\ \E o \in applyItems([m |-> mgr[Primary], cfg |-> cfg[Primary],
                            pool |-> pool[Primary]], last.items) :
          /\ mgr' = [mgr EXCEPT ![Primary] = o.m]
          /\ cfg' = [cfg EXCEPT ![Primary] = o.cfg]
          /\ pool' = [pool EXCEPT ![Primary] = o.pool]
          /\ last' = [op |-> "applyItems", items |-> last.items, err |-> o.err,
                      before |-> [m |-> mgr[Primary], cfg |-> cfg[Primary],
                                  pool |-> pool[Primary]]]
    /\ UNCHANGED <<sync, srv, req, held, reloaded, pow, svc>>

NextApply == ApplyBatch

SpecApply == InitApply /\ [][NextApply]_vars

\* C9: applying a lower-versioned item never regresses local state: after
\* applyItems on a batch whose accounts and config items all have a version
\* lower than the manager's version before the call, the runtime config and
\* the pool roster are what they were and the version is not lowered.
C9_LowerVersionNeverRegresses ==
    (/\ last.op = "applyItems"
     /\ Len(last.items) > 0
     /\ \A k \in DOMAIN last.items : last.items[k].Version < last.before.m.version)
    => /\ cfg[Primary] = last.before.cfg
       /\ pool[Primary].accounts = last.before.pool.accounts
       /\ mgr[Primary].version >= last.before.m.version

\* The positions of the items of a batch that are not deleted and carry path
LiveAt(items, path) ==
    {k \in DOMAIN items : ~items[k].Deleted /\ TrimSpace(items[k].Path) = path}

SetMax(S) == CHOOSE x \in S : \A y \in S : y <= x

\* C10 as stated: deleted items and items of other paths change nothing; a
\* config item sets refresh, max_active_accounts and claude_model_mapping; an
\* accounts item sets the pool roster; a config item alone reloads the pool
\* with its current roster; total and max_accounts reflect the combined state
\* and the version is at least the highest version of the items not deleted.
C10_ApplyItemsBatch ==
    last.op = "applyItems" =>
        LET b == last.before
            items == last.items
            acc == LiveAt(items, accountsPath)
            cf == LiveAt(items, configPath)
            live == {k \in DOMAIN items : ~items[k].Deleted}
            p == pool[Primary]
            c == cfg[Primary]
        IN /\ (acc = {} /\ cf = {}) =>
                 /\ mgr[Primary] = b.m /\ c = b.cfg /\ p = b.pool
           /\ cf # {} =>
                 \E k \in cf :
                    /\ c.Refresh = items[k].Metadata.refresh
                    /\ c.MaxActiveAccounts = items[k].Metadata.max
                    /\ c.ClaudeModelMapping =
                          IF items[k].Metadata.mapping = <<>> THEN DefaultMapping
                          ELSE items[k].Metadata.mapping[1]
           /\ acc # {} =>
                 \E k \in acc : /\ items[k].Metadata.accounts # <<>>
                                /\ p.accounts = items[k].Metadata.accounts[1]
           /\ (cf # {} /\ acc = {}) =>
                 /\ p.accounts = b.pool.accounts
                 /\ p.refresh = c.Refresh
           /\ GetStatus(p).total = Len(p.accounts)
           /\ GetStatus(p).max_accounts = Len(p.accounts)
           /\ live # {} => mgr[Primary].version >= SetMax({items[k].Version : k \in live})

\* C10 as the code has it: when a payload of the batch does not decode,
\* config and pool are left as they were (the version may already have been
\* raised).  Otherwise the last config item not deleted sets the three runtime
\* fields (the default mapping when it has none), and the last accounts item
\* not deleted, unless its metadata is null, gives the roster; with either
\* present the pool is reloaded from that roster (the current one when no
\* roster came) and the new runtime fields, keeping max_active_accounts of
\* its accounts when 0 < max_active_accounts < its length, so that total and
\* max_accounts are that number; with neither the pool is untouched.  The
\* version becomes the maximum of the old version and the versions of all
\* items not deleted, of any path; a batch of deleted items changes nothing.
C10_ApplyItemsAsCoded ==
    last.op = "applyItems" =>
        LET b == last.before
            items == last.items
            acc == LiveAt(items, accountsPath)
            cf == LiveAt(items, configPath)
            live == {k \in DOMAIN items : ~items[k].Deleted}
            p == pool[Primary]
            c == cfg[Primary]
            hasRoster == acc # {} /\ items[SetMax(acc)].Metadata.k # "null"
            src == IF hasRoster THEN items[SetMax(acc)].Metadata.accounts[1]
                   ELSE b.pool.accounts
            mx == c.MaxActiveAccounts
            total == IF mx <= 0 \/ mx > Len(src) THEN Len(src) ELSE mx
        IN /\ mgr[Primary].cursor = b.m.cursor
           /\ mgr[Primary].version >= b.m.version
           /\ live = {} => (mgr[Primary] = b.m /\ c = b.cfg /\ p = b.pool /\ ~last.err)
           /\ last.err => (c = b.cfg /\ p = b.pool)
           /\ ~last.err =>
                 /\ cf = {} => c = b.cfg
                 /\ cf # {} =>
                       LET k == SetMax(cf)
                       IN /\ c.Refresh = items[k].Metadata.refresh
                          /\ c.MaxActiveAccounts = items[k].Metadata.max
                          /\ c.ClaudeModelMapping =
                                IF items[k].Metadata.mapping = <<>> THEN DefaultMapping
                                ELSE items[k].Metadata.mapping[1]
                 /\ (cf = {} /\ ~hasRoster) => p = b.pool
                 /\ (cf # {} \/ hasRoster) =>
                       /\ p.refresh = c.Refresh
                       /\ SeqRange(p.accounts) \subseteq SeqRange(src)
                       /\ (total = Len(src) => p.accounts = src)
                       /\ GetStatus(p).total = total
                       /\ GetStatus(p).max_accounts = total
                 /\ mgr[Primary].version =
                       SetMax({b.m.version} \cup {items[k].Version : k \in live})

\* C10 witness: a batch with an accounts item and a config item was applied
\* and changed both the roster and the runtime fields.
C10_Witness ==
    /\ last.op = "applyItems" /\ ~last.err
    /\ LiveAt(last.items, accountsPath) # {}
    /\ LiveAt(last.items, configPath) # {}
    /\ pool[Primary].accounts # last.before.pool.accounts
    /\ cfg[Primary] # last.before.cfg
    /\ mgr[Primary].version > last.before.m.version

-----------------------------------------------------------------------------
(* The sync manager: InitialSync, SyncOnce, pullAndApply, pushLocalSnapshot *)
(* and upsertWithConflictRetry, one action per client call                  *)

advanceVersionCursorMut(m, v) == [version |-> v, cursor |-> v]

advanceVersionCursor(m, v) ==
    [version |-> IF v > m.version THEN v ELSE m.version,
     cursor |-> IF v > m.cursor THEN v ELSE m.cursor]

pullCommitMut(m, s, deltaNext) == [version |-> s.latest, cursor |-> deltaNext]

\* The tail of pullAndApply: s holds since, cursor and listResp
pullCommit(m, s, deltaNext) ==
    LET maxVersion == s.latest
        c1 == IF s.next > s.cursor THEN s.next ELSE s.cursor
        c2 == IF deltaNext > c1 THEN deltaNext ELSE c1
    IN [version |-> IF maxVersion > m.version THEN maxVersion ELSE m.version,
        cursor |-> IF c2 > m.cursor THEN c2 ELSE m.cursor]

\* The head of pullAndApply
pullBegin(s, m, ctx) ==
    [s EXCEPT !.pc = "list", !.ctx = ctx, !.since = m.version, !.cursor = m.cursor,
              !.next = 0, !.latest = 0]

\* SyncOnce or InitialSync returns
syncReturn(s) == [s EXCEPT !.pc = "idle", !.ctx = "tick", !.since = 0, !.cursor = 0,
                           !.next = 0, !.latest = 0, !.which = accountsPath,
                           !.accountsMeta = NullMeta, !.configMeta = NullMeta,
                           !.ce = <<>>, !.calls = <<>>]

pushMeta(s) == IF s.which = accountsPath THEN s.accountsMeta ELSE s.configMeta

\* upsertWithConflictRetry returned nil: the next path, or the end of the tick
nextPath(s) ==
    IF s.which = accountsPath
    THEN [s EXCEPT !.which = configPath, !.pc = "upsert", !.ctx = "tick",
                   !.ce = <<>>, !.calls = <<>>]
    ELSE syncReturn(s)

Call(op, path, meta, base) == [op |-> op, path |-> path, meta |-> meta, base |-> base]

NoPath == <<>>

\* How upsertWithConflictRetry returned in the step just taken, with the client
\* calls it made and the ServerVersion of the conflict it met (<<>> if none);
\* NoRet when the step was not a return of upsertWithConflictRetry
Ret(how, s) == [how |-> how, calls |-> s.calls, ce |-> s.ce]

NoRet == [how |-> "none", calls |-> <<>>, ce |-> <<>>]

\* pullAndApply returned an error to s.ctx
pullError(s) == IF s.ctx = "recover" THEN Ret("error", s) ELSE NoRet

resolveBaseMut(s, m) == m.version

\* The base_version of the ResolveConflict request: ce.ServerVersion
resolveBase(s, m) == s.ce[1]

\* InitialSync up to its pullAndApply; r is the answer to Handshake
Handshake(i, r) ==
    /\ sync[i].pc = "new"
    /\ IF r.err
       THEN /\ mgr' = mgr
            /\ sync' = [sync EXCEPT ![i] = syncReturn(@)]
       ELSE /\ mgr' = [mgr EXCEPT ![i].cursor = r.Cursor]
            /\ sync' = [sync EXCEPT ![i] = pullBegin(@, mgr'[i], "tick")]
    /\ last' = [op |-> "Handshake", inst |-> i, ret |-> NoRet]
    /\ UNCHANGED <<pool, cfg, req, held, reloaded, pow>>

\* Run: the ticker fires and SyncOnce starts pullAndApply
Tick(i) ==
    /\ sync[i].pc = "idle"
    /\ sync' = [sync EXCEPT ![i] = pullBegin(@, mgr[i], "tick")]
    /\ last' = [op |-> "Tick", inst |-> i, ret |-> NoRet]
    /\ UNCHANGED <<pool, cfg, mgr, req, held, reloaded, pow>>

\* pullAndApply: ListItems is answered with r, then applyItems
ListItemsStep(i, r) ==
    /\ sync[i].pc = "list"
    /\ LET s == sync[i]
           logged == [s EXCEPT !.calls =
                         IF s.ctx = "recover"
                         THEN Append(@, Call("ListItems", NoPath, NullMeta, s.since))
                         ELSE @]
       IN IF r.err
          THEN /\ sync' = [sync EXCEPT ![i] = syncReturn(logged)]
               /\ last' = [op |-> "ListItems", inst |-> i, ret |-> pullError(logged)]
               /\ UNCHANGED <<mgr, cfg, pool>>
          ELSE \E o \in applyItems([m |-> mgr[i], cfg |-> cfg[i], pool |-> pool[i]],
                                   r.Items) :
                  /\ mgr' = [mgr EXCEPT ![i] = o.m]
                  /\ cfg' = [cfg EXCEPT ![i] = o.cfg]
                  /\ pool' = [pool EXCEPT ![i] = o.pool]
                  /\ sync' = [sync EXCEPT ![i] =
                                IF o.err THEN syncReturn(logged)
                                ELSE [logged EXCEPT !.pc = "delta",
                                                    !.next = r.NextCursor,
                                                    !.latest = r.LatestVersion]]
                  /\ last' = [op |-> "ListItems", inst |-> i,
                              ret |-> IF o.err THEN pullError(logged) ELSE NoRet]
    /\ UNCHANGED <<req, held, reloaded, pow>>

\* pullAndApply: Delta is answered with r; then either pushLocalSnapshot
\* starts (its two captures are taken here) or the conflict is resolved
DeltaStep(i, r) ==
    /\ sync[i].pc = "delta"
    /\ LET s == sync[i]
           logged == [s EXCEPT !.calls =
                         IF s.ctx = "recover"
                         THEN Append(@, Call("Delta", NoPath, NullMeta, s.since))
                         ELSE @]
           done == [logged EXCEPT !.since = 0, !.cursor = 0, !.next = 0, !.latest = 0]
       IN /\ IF r.err
             THEN /\ sync' = [sync EXCEPT ![i] = syncReturn(logged)]
                  /\ mgr' = mgr
             ELSE /\ mgr' = [mgr EXCEPT ![i] = pullCommit(@, s, r.NextCursor)]
                  /\ sync' = [sync EXCEPT ![i] =
                                IF s.ctx = "recover"
                                THEN [done EXCEPT !.pc = "resolve"]
                                ELSE [done EXCEPT
                                        !.pc = "upsert", !.which = accountsPath,
                                        !.accountsMeta =
                                            AccountsMeta(snapshotConfigLocked(pool[i])),
                                        !.configMeta = ConfigMeta(cfg[i])]]
          /\ last' = [op |-> "Delta", inst |-> i, ok |-> ~r.err, latest |-> s.latest,
                      next |-> s.next, deltaNext |-> r.NextCursor, prev |-> mgr[i],
                      ret |-> IF r.err THEN pullError(logged) ELSE NoRet]
    /\ UNCHANGED <<pool, cfg, req, held, reloaded, pow>>

\* upsertWithConflictRetry: UpsertItem is answered with r
UpsertStep(i, r) ==
    /\ sync[i].pc = "upsert"
    /\ LET s == sync[i]
           s1 == [s EXCEPT !.calls = Append(@, Call("Upsert", s.which, pushMeta(s),
                                                    mgr[i].version))]
       IN IF r.kind = "ok"
          THEN /\ mgr' = [mgr EXCEPT ![i] = advanceVersionCursor(@, r.Version)]
               /\ sync' = [sync EXCEPT ![i] = nextPath(s1)]
               /\ last' = [op |-> "Upsert", inst |-> i, kind |-> r.kind,
                           v |-> r.Version, prev |-> mgr[i], ret |-> Ret("ok", s1)]
          ELSE IF r.kind = "conflict"
          THEN /\ mgr' = mgr
               /\ sync' = [sync EXCEPT ![i] =
                             pullBegin([s1 EXCEPT !.ce = <<r.ServerVersion>>],
                                       mgr[i], "recover")]
               /\ last' = [op |-> "Upsert", inst |-> i, kind |-> r.kind,
                           v |-> r.Version, prev |-> mgr[i], ret |-> NoRet]
          ELSE /\ mgr' = mgr
               /\ sync' = [sync EXCEPT ![i] = syncReturn(s1)]
               /\ last' = [op |-> "Upsert", inst |-> i, kind |-> r.kind,
                           v |-> r.Version, prev |-> mgr[i], ret |-> Ret("error", s1)]
    /\ UNCHANGED <<pool, cfg, req, held, reloaded, pow>>

\* upsertWithConflictRetry: ResolveConflict is answered with r
ResolveStep(i, r) ==
    /\ sync[i].pc = "resolve"
    /\ LET s == sync[i]
           s1 == [s EXCEPT !.calls = Append(@, Call("Resolve", s.which, pushMeta(s),
                                                    resolveBase(s, mgr[i])))]
       IN IF r.kind = "ok"
          THEN /\ mgr' = [mgr EXCEPT ![i] = advanceVersionCursor(@, r.Version)]
               /\ sync' = [sync EXCEPT ![i] = nextPath(s1)]
               /\ last' = [op |-> "Resolve", inst |-> i, kind |-> r.kind,
                           v |-> r.Version, prev |-> mgr[i], ret |-> Ret("ok", s1)]
          ELSE /\ mgr' = mgr
               /\ sync' = [sync EXCEPT ![i] = syncReturn(s1)]
               /\ last' = [op |-> "Resolve", inst |-> i, kind |-> r.kind,
                           v |-> r.Version, prev |-> mgr[i], ret |-> Ret("error", s1)]
    /\ UNCHANGED <<pool, cfg, req, held, reloaded, pow>>

-----------------------------------------------------------------------------
(* SpecSync: one manager against a server that may answer anything         *)

\* The versions and cursors the server answers with
VersionValues == {0, 7, 8}

AnyBatches ==
    { <<>>,
      <<Item(accountsPath, 7, FALSE, AccountsMeta(<<AcctB>>))>>,
      <<Item(configPath, 1, FALSE, Meta("json", "config", <<>>, TRUE, 0, <<>>))>>,
      <<Item(accountsPath, 8, FALSE, [AccountsMeta(<<AcctA>>) EXCEPT !.enc = "string"])>>,
      <<Item(otherPath, 8, TRUE, NullMeta)>> }

AnyHandshake ==
    /\ \E r \in {[err |-> TRUE, Cursor |-> 0]}
                \cup {[err |-> FALSE, Cursor |-> c] : c \in VersionValues} :
          Handshake(Primary, r)
    /\ UNCHANGED <<srv, svc>>

AnyTick == Tick(Primary) /\ UNCHANGED <<srv, svc>>

AnyListItems ==
    /\ \E r \in {[err |-> TRUE, Items |-> <<>>, NextCursor |-> 0, LatestVersion |-> 0]}
                \cup {[err |-> FALSE, Items |-> b, NextCursor |-> c, LatestVersion |-> v] :
                        b \in AnyBatches, c \in VersionValues, v \in VersionValues} :
          ListItemsStep(Primary, r)
    /\ UNCHANGED <<srv, svc>>

AnyDelta ==
    /\ \E r \in {[err |-> TRUE, NextCursor |-> 0]}
                \cup {[err |-> FALSE, NextCursor |-> c] : c \in VersionValues} :
          DeltaStep(Primary, r)
    /\ UNCHANGED <<srv, svc>>

AnyUpsert ==
    /\ \E r \in {[kind |-> "error", Version |-> 0, ServerVersion |-> 0]}
                \cup {[kind |-> "ok", Version |-> v, ServerVersion |-> 0] :
                        v \in VersionValues}
                \cup {[kind |-> "conflict", Version |-> 0, ServerVersion |-> v] :
                        v \in VersionValues} :
          UpsertStep(Primary, r)
    /\ UNCHANGED <<srv, svc>>

AnyResolve ==
    /\ \E r \in {[kind |-> "error", Version |-> 0, ServerVersion |-> 0]}
                \cup {[kind |-> "ok", Version |-> v, ServerVersion |-> 0] :
                        v \in VersionValues} :
          ResolveStep(Primary, r)
    /\ UNCHANGED <<srv, svc>>

NextSync ==
    \/ AnyHandshake
    \/ AnyTick
    \/ AnyListItems
    \/ AnyDelta
    \/ AnyUpsert
    \/ AnyResolve

\* A gateway started with the roster of its configuration file, unlimited
\* max_active_accounts, and a sync manager that has not run yet
InitSync ==
    /\ \E p \in NewPool(<<AcctA, AcctB>>, FALSE, 0) :
          pool = [i \in Inst |-> IF i = Primary THEN p ELSE EmptyPool]
    /\ cfg = [i \in Inst |-> [Refresh |-> FALSE, MaxActiveAccounts |-> 0,
                              ClaudeModelMapping |-> DefaultMapping]]
    /\ mgr = [i \in Inst |-> [version |-> 0, cursor |-> 0]]
    /\ sync = [i \in Inst |-> NewSync]
    /\ srv = EmptySrv
    /\ req = IdleReq
    /\ held = NoneHeld
    /\ reloaded = FALSE
    /\ pow = IdlePow
    /\ svc = IdleSvc
    /\ last = NoOp

SpecSync == InitSync /\ [][NextSync]_vars

\* C5: in every step of a sync manager, whatever the server answered, its
\* version and its cursor do not decrease.
C5_VersionCursorMonotonic ==
    [][\A i \in Inst : /\ mgr'[i].version >= mgr[i].version
                       /\ mgr'[i].cursor >= mgr[i].cursor]_vars

\* C5 witness: a pull has just finished whose answers (latest_version and both
\* next_cursor values) were all below what the manager already had.
C5_Witness ==
    /\ last.op = "Delta" /\ last.ok
    /\ last.prev.version > 0 /\ last.prev.cursor > 0
    /\ last.latest < last.prev.version
    /\ last.next < last.prev.cursor
    /\ last.deltaNext < last.prev.cursor
    /\ mgr[last.inst] = last.prev

CallPattern == <<"Upsert", "ListItems", "Delta", "Resolve">>

\* The calls of one invocation of upsertWithConflictRetry follow the pattern
InPattern(calls) ==
    /\ Len(calls) <= Len(CallPattern)
    /\ \A k \in DOMAIN calls : calls[k].op = CallPattern[k]

\* C6 as stated: whenever upsertWithConflictRetry returns after its Upsert
\* was answered with a conflict, it has made exactly the calls Upsert,
\* ListItems, Delta, ResolveConflict in this order, the ResolveConflict for
\* the same path and metadata and with base_version = server_version.
C6_ConflictPullResolve ==
    (last.op \in {"ListItems", "Delta", "Upsert", "Resolve"}
        /\ last.ret.how # "none" /\ last.ret.ce # <<>>) =>
        LET c == last.ret.calls
        IN /\ Len(c) = Len(CallPattern) /\ InPattern(c)
           /\ c[4].path = c[1].path /\ c[4].meta = c[1].meta
           /\ c[4].base = last.ret.ce[1]

\* C6 as the code has it: the calls of an invocation are always a prefix of
\* Upsert, ListItems, Delta, ResolveConflict (so the Upsert is never sent
\* again and ResolveConflict never before Delta has answered), the pull
\* happens only after a conflict, and ResolveConflict carries the path and
\* metadata of the Upsert and base_version = server_version.  An invocation
\* that met a conflict returns nil only after all four calls; when the
\* recovery pull fails (ListItems, applyItems or Delta) it returns the error
\* after two or three calls, without any ResolveConflict.
C6_ConflictPullResolveIfPullSucceeds ==
    /\ \A i \in Inst :
          /\ InPattern(sync[i].calls)
          /\ Len(sync[i].calls) > 1 => sync[i].ce # <<>>
          /\ sync[i].pc = "resolve" => Len(sync[i].calls) = 3
    /\ (last.op \in {"ListItems", "Delta", "Upsert", "Resolve"}
           /\ last.ret.how # "none") =>
          LET c == last.ret.calls
          IN /\ InPattern(c) /\ Len(c) >= 1
             /\ last.ret.ce = <<>> => Len(c) = 1
             /\ last.ret.ce # <<>> => Len(c) >= 2
             /\ (last.ret.ce # <<>> /\ last.ret.how = "ok") => Len(c) = 4
             /\ (last.op \in {"ListItems", "Delta"}) =>
                    (last.ret.how = "error" /\ Len(c) \in {2, 3})
             /\ Len(c) = 4 =>
                    /\ c[4].path = c[1].path /\ c[4].meta = c[1].meta
                    /\ c[4].base = last.ret.ce[1]

\* C6 witness: a conflict at server_version 7 was followed by the pull and
\* by a ResolveConflict with base_version 7 that succeeded, while the
\* manager's own version was a different one.
C6_Witness ==
    /\ last.op = "Resolve" /\ last.ret.how = "ok"
    /\ last.ret.ce = <<7>>
    /\ Len(last.ret.calls) = 4
    /\ last.ret.calls[4].base = 7
    /\ last.prev.version # 7

\* C7: after a successful Upsert or ResolveConflict that returned an item of
\* version v, version = max(previous version, v) and cursor = max(previous
\* cursor, v).
C7_AdvanceToMax ==
    (last.op \in {"Upsert", "Resolve"} /\ last.kind = "ok") =>
        /\ mgr[last.inst].version = Max(last.prev.version, last.v)
        /\ mgr[last.inst].cursor = Max(last.prev.cursor, last.v)

\* C7 witness: a conflict at server_version 7 was resolved into an item of
\* version 8, and version = 8 and cursor = 8.
C7_Witness ==
    /\ last.op = "Resolve" /\ last.kind = "ok" /\ last.v = 8
    /\ last.ret.ce = <<7>>
    /\ last.prev.version = 7
    /\ mgr[last.inst] = [version |-> 8, cursor |-> 8]

-----------------------------------------------------------------------------
(* The cloud-sync server (SyncService and SyncRepo) for one user            *)

\* cfg.CloudSync.Limit after config.Load
SyncLimit == 100

\* What an item row carries: the metadata is kept as the text of the JSON
\* document and models.SyncItem serves that text as a JSON string
Stored(meta) == [meta EXCEPT !.enc = "string"]

\* SyncService.Upsert; base is <<>> for no base_version, <<b>> otherwise
SrvUpsert(s, path, meta, base) ==
    LET p == TrimSpace(path)
    IN IF p = <<>>
       THEN [kind |-> "error", Version |-> 0, ServerVersion |-> 0, srv |-> s]
       ELSE IF p \in DOMAIN s.items /\ base # <<>> /\ base[1] # s.items[p].Version
       THEN [kind |-> "conflict", Version |-> 0,
             ServerVersion |-> s.items[p].Version, srv |-> s]
       ELSE LET nextVersion == s.latest + 1
                row == [Version |-> nextVersion, Deleted |-> FALSE,
                        Metadata |-> Stored(meta)]
            IN [kind |-> "ok", Version |-> nextVersion, ServerVersion |-> 0,
                srv |-> [items |-> [q \in DOMAIN s.items \cup {p} |->
                                       IF q = p THEN row ELSE s.items[q]],
                         latest |-> nextVersion]]

\* SyncService.ResolveConflict without an id
SrvResolveConflict(s, path, meta, base) ==
    IF TrimSpace(path) = <<>>
    THEN [kind |-> "error", Version |-> 0, ServerVersion |-> 0, srv |-> s]
    ELSE SrvUpsert(s, TrimSpace(path), meta, <<base>>)

\* The item rows of the paths in S, ORDER BY version ASC
RECURSIVE ByVersion(_, _)
ByVersion(s, S) ==
    IF S = {} THEN <<>>
    ELSE LET p == CHOOSE x \in S : \A y \in S : s.items[x].Version <= s.items[y].Version
         IN <<Item(p, s.items[p].Version, s.items[p].Deleted, s.items[p].Metadata)>>
            \o ByVersion(s, S \ {p})

\* SyncService.ListItems / SyncRepo.ListItems
SrvListItems(s, since, limit, cursor) ==
    LET lim == IF limit <= 0 THEN 50 ELSE limit
        effectiveSince == IF cursor > since THEN cursor ELSE since
        S == {p \in DOMAIN s.items : s.items[p].Version > effectiveSince}
        n == Min(lim, Cardinality(S))
        items == SubSeq(ByVersion(s, S), 1, n)
    IN [err |-> FALSE, Items |-> items,
        NextCursor |-> IF n = 0 THEN effectiveSince ELSE items[n].Version,
        LatestVersion |-> s.latest]

\* SyncService.Delta / SyncRepo.ListEvents: every write added one event, so
\* the events are those of versions 1..latest
SrvDelta(s, since, limit, cursor) ==
    LET lim == IF limit <= 0 THEN 100 ELSE limit
        effectiveSince == IF cursor > since THEN cursor ELSE since
    IN [err |-> FALSE,
        NextCursor |-> IF s.latest > effectiveSince
                       THEN Min(s.latest, effectiveSince + lim) ELSE effectiveSince]

\* SyncService.Handshake: the session row takes the cursor of the request
SrvHandshake(cursor) == [err |-> FALSE, Cursor |-> cursor]

-----------------------------------------------------------------------------
(* SpecConv: NumInst gateways, each running its sync manager against the    *)
(* same server                                                              *)

MaxVersion == 4    \* the server accepts writes while latest < MaxVersion

ConvHandshake(i) ==
    /\ sync[i].pc = "new"
    /\ \E r \in {SrvHandshake(mgr[i].cursor)} : Handshake(i, r)
    /\ UNCHANGED <<srv, svc>>

ConvTick(i) == Tick(i) /\ UNCHANGED <<srv, svc>>

ConvListItems(i) ==
    /\ sync[i].pc = "list"
    /\ \E r \in {SrvListItems(srv, sync[i].since, SyncLimit, sync[i].cursor)} :
          ListItemsStep(i, r)
    /\ UNCHANGED <<srv, svc>>

ConvDelta(i) ==
    /\ sync[i].pc = "delta"
    /\ \E r \in {SrvDelta(srv, sync[i].since, SyncLimit, sync[i].cursor)} :
          DeltaStep(i, r)
    /\ UNCHANGED <<srv, svc>>

ConvUpsert(i) ==
    /\ sync[i].pc = "upsert"
    /\ \E r \in {SrvUpsert(srv, sync[i].which, pushMeta(sync[i]), <<mgr[i].version>>)} :
          /\ r.kind = "ok" => srv.latest < MaxVersion
          /\ UpsertStep(i, r)
          /\ srv' = r.srv /\ UNCHANGED svc

ConvResolve(i) ==
    /\ sync[i].pc = "resolve"
    /\ \E r \in {SrvResolveConflict(srv, sync[i].which, pushMeta(sync[i]),
                                    resolveBase(sync[i], mgr[i]))} :
          /\ r.kind = "ok" => srv.latest < MaxVersion
          /\ ResolveStep(i, r)
          /\ srv' = r.srv /\ UNCHANGED svc

ConvStep(i) ==
    \/ ConvHandshake(i)
    \/ ConvTick(i)
    \/ ConvListItems(i)
    \/ ConvDelta(i)
    \/ ConvUpsert(i)
    \/ ConvResolve(i)

NextConv == \E i \in Inst : ConvStep(i)

\* Every gateway starts with a roster of its own configuration file and
\* unlimited max_active_accounts
ConvRosters == { <<AcctA>>, <<AcctB>>, <<AcctA, AcctB>> }

InitConv ==
    /\ pool \in [Inst -> UNION {NewPool(r, FALSE, 0) : r \in ConvRosters}]
    /\ cfg = [i \in Inst |-> [Refresh |-> FALSE, MaxActiveAccounts |-> 0,
                              ClaudeModelMapping |-> DefaultMapping]]
    /\ mgr = [i \in Inst |-> [version |-> 0, cursor |-> 0]]
    /\ sync = [i \in Inst |-> NewSync]
    /\ srv = EmptySrv
    /\ req = IdleReq
    /\ held = NoneHeld
    /\ reloaded = FALSE
    /\ pow = IdlePow
    /\ svc = IdleSvc
    /\ last = NoOp

\* Weak fairness on every instance's sync steps
SpecConv == InitConv /\ [][NextConv]_vars /\ \A i \in Inst : WF_vars(ConvStep(i))

\* C8: with weak fairness on every instance, eventually all instances hold
\* the same account roster and from then on it stays the same on all of them.
C8_RostersConverge ==
    <>[](\A i, j \in Inst : pool[i].accounts = pool[j].accounts)

-----------------------------------------------------------------------------
(* The PoW answer cache (internal/pow: Cache.Get, Cache.Set)               *)
(* pow.entries is the Go map: a function whose DOMAIN is the keys present. *)
(* pow.set is history: per key, the latest Set that was not dropped.       *)

MaxTime == 4          \* the clock is not advanced beyond this second
CacheKeys == {"k1", "k2"}
CacheVals == {"v1", "v2"}
ExpireValues == -1..(MaxTime + 1)

Put(m, key, e) == [k \in DOMAIN m \cup {key} |-> IF k = key THEN e ELSE m[k]]
Drop(m, key) == [k \in DOMAIN m \ {key} |-> m[k]]

CacheGetMut(entries, key, now) ==
    IF key \notin DOMAIN entries
    THEN [entries |-> entries, val |-> "", ok |-> FALSE]
    ELSE [entries |-> entries, val |-> entries[key].Val, ok |-> TRUE]

\* Cache.Get: the entries afterwards, the value, and whether it was found
CacheGet(entries, key, now) ==
    IF key \notin DOMAIN entries
    THEN [entries |-> entries, val |-> "", ok |-> FALSE]
    ELSE IF entries[key].ExpireAt > 0 /\ now >= entries[key].ExpireAt
         THEN [entries |-> Drop(entries, key), val |-> "", ok |-> FALSE]
         ELSE [entries |-> entries, val |-> entries[key].Val, ok |-> TRUE]

CacheSetMut(entries, key, val, expireAt, now) ==
    IF expireAt > 0 /\ now >= expireAt
    THEN entries
    ELSE Put(entries, key, [Val |-> val, ExpireAt |-> expireAt])

\* Cache.Set: the entries afterwards
CacheSet(entries, key, val, expireAt, now) ==
    IF expireAt > 0 /\ now >= expireAt
    THEN entries
    ELSE Put(entries, key, [Val |-> val, ExpireAt |-> expireAt - 1])

Others == <<pool, cfg, mgr, sync, srv, req, held, reloaded, svc>>

PowSet(key, val, expireAt) ==
    LET after == CacheSet(pow.entries, key, val, expireAt, pow.now)
        dropped == expireAt > 0 /\ pow.now >= expireAt
    IN  /\ pow' = [pow EXCEPT !.entries = after,
                              !.set = IF dropped THEN @
                                      ELSE Put(@, key, [val |-> val, expireAt |-> expireAt])]
        /\ last' = [op |-> "Set", key |-> key, val |-> val, expireAt |-> expireAt,
                    at |-> pow.now, before |-> pow.entries]
        /\ UNCHANGED Others

PowGet(key) ==
    LET r == CacheGet(pow.entries, key, pow.now)
    IN  /\ pow' = [pow EXCEPT !.entries = r.entries]
        /\ last' = [op |-> "Get", key |-> key, val |-> r.val, ok |-> r.ok, at |-> pow.now]
        /\ UNCHANGED Others

\* time.Now().Unix() moves on between calls
PowAdvance ==
    /\ pow.now < MaxTime
    /\ pow' = [pow EXCEPT !.now = @ + 1]
    /\ UNCHANGED <<last, pool, cfg, mgr, sync, srv, req, held, reloaded, svc>>

NextCache ==
    \/ \E key \in CacheKeys, val \in CacheVals, expireAt \in ExpireValues :
           PowSet(key, val, expireAt)
    \/ \E key \in CacheKeys : PowGet(key)
    \/ PowAdvance

\* A gateway that has served nothing yet: the cache is empty
InitQuiet ==
    /\ pool = [i \in Inst |-> EmptyPool]
    /\ cfg = [i \in Inst |-> [Refresh |-> FALSE, MaxActiveAccounts |-> 0,
                              ClaudeModelMapping |-> DefaultMapping]]
    /\ mgr = [i \in Inst |-> [version |-> 0, cursor |-> 0]]
    /\ sync = [i \in Inst |-> NewSync]
    /\ srv = EmptySrv
    /\ req = IdleReq
    /\ held = NoneHeld
    /\ reloaded = FALSE
    /\ pow = IdlePow
    /\ svc = IdleSvc
    /\ last = NoOp

SpecCache == InitQuiet /\ [][NextCache]_vars

\* The latest Set of the key that was not dropped, if there is one
HasSet(key) == key \in DOMAIN pow.set

(* C11: Get(key) returns a value only if the latest Set for that key that  *)
(* was not dropped stored that value and the current time is before that   *)
(* Set's expire_at - 1; a Get at or after that expiry misses and removes   *)
(* the entry; a Set whose expire_at has already been reached stores        *)
(* nothing and leaves the existing entry unchanged.                        *)
C11_CacheExpiry ==
    /\ (last.op = "Get" /\ last.ok) =>
           /\ HasSet(last.key)
           /\ last.val = pow.set[last.key].val
           /\ last.at < pow.set[last.key].expireAt - 1
    /\ (last.op = "Get" /\ HasSet(last.key)
            /\ last.at >= pow.set[last.key].expireAt - 1) =>
           /\ ~last.ok
           /\ last.key \notin DOMAIN pow.entries
    /\ (last.op = "Set" /\ last.at >= last.expireAt) => pow.entries = last.before

(* C11, as the code has it: the above holds for a Set with expire_at > 0;  *)
(* a Set with expire_at <= 0 is never dropped and its entry never expires: *)
(* every later Get returns its value until a Set that is not dropped       *)
(* replaces it.                                                            *)
C11_CacheExpiryPositive ==
    /\ (last.op = "Get" /\ last.ok) =>
           /\ HasSet(last.key)
           /\ last.val = pow.set[last.key].val
           /\ \/ pow.set[last.key].expireAt <= 0
              \/ last.at < pow.set[last.key].expireAt - 1
    /\ (last.op = "Get" /\ HasSet(last.key)) =>
           IF pow.set[last.key].expireAt <= 0
           THEN last.ok /\ last.key \in DOMAIN pow.entries
           ELSE last.at >= pow.set[last.key].expireAt - 1 =>
                    ~last.ok /\ last.key \notin DOMAIN pow.entries
    /\ (last.op = "Get" /\ ~HasSet(last.key)) => ~last.ok
    /\ (last.op = "Set" /\ last.expireAt > 0 /\ last.at >= last.expireAt) =>
           pow.entries = last.before
    /\ (last.op = "Set" /\ last.expireAt <= 0) =>
           /\ last.key \in DOMAIN pow.entries
           /\ pow.entries[last.key].Val = last.val

\* A Get at the stored expiry of a live entry: it misses and removes it
C11_Witness ==
    /\ last.op = "Get"
    /\ HasSet(last.key)
    /\ pow.set[last.key].expireAt > 0
    /\ last.at = pow.set[last.key].expireAt - 1
    /\ ~last.ok

-----------------------------------------------------------------------------
(* The native PoW solver (internal/pow/solver.go: solveNative)             *)
(* The hash is a fixed function of the nonce: each nonce is hashed once    *)
(* and pow.solve.seen keeps the values, seen[n + 1] being the hash of n.   *)
(* Hash values are HashBits wide in place of 256.                          *)

HashBits == 2
MaxNonce == 2         \* the search is not explored beyond this nonce
Space == 2 ^ HashBits
HashValues == 0..(Space - 1)
Difficulties == -1..Space
SolveExpires == {0} \cup (2..MaxTime)

DeepSeekHashV1 == <<"D", "e", "e", "p", "S", "e", "e", "k", "H", "a", "s", "h", "V", "1">>
Algorithms == {DeepSeekHashV1, <<" ">> \o DeepSeekHashV1, DeepSeekHashV1 \o <<"\n">>,
               <<"m", "d", "5">>, << >>}

\* targetFromDifficulty: << >> is the nil target
targetFromDifficulty(diff) ==
    IF diff <= 0 THEN << >> ELSE <<Space \div diff>>

SolveRet(nonce, ok) == [nonce |-> nonce, ok |-> ok, at |-> pow.now]

SolveCall(algorithm, difficulty, expireAt) ==
    [pc |-> "call", algorithm |-> algorithm, difficulty |-> difficulty,
     expireAt |-> expireAt, nonce |-> 0, seen |-> << >>]

\* solveNative up to the loop: the algorithm and the target are checked
SolveEnter ==
    /\ pow.solve.pc = "call"
    /\ LET c == pow.solve
       IN  pow' = [pow EXCEPT !.solve =
                IF TrimSpace(c.algorithm) # DeepSeekHashV1
                THEN [c EXCEPT !.pc = "done"] @@ [ret |-> SolveRet(0, FALSE)]
                ELSE IF targetFromDifficulty(c.difficulty) = << >>
                     THEN [c EXCEPT !.pc = "done"] @@ [ret |-> SolveRet(0, FALSE)]
                     ELSE [c EXCEPT !.pc = "loop"]]
    /\ UNCHANGED <<last, pool, cfg, mgr, sync, srv, req, held, reloaded, svc>>

\* one turn of the loop: the expiry check, then the hash of this nonce
SolveTest ==
    /\ pow.solve.pc = "loop"
    /\ pow.solve.nonce <= MaxNonce
    /\ LET c == pow.solve
           target == targetFromDifficulty(c.difficulty)[1]
       IN  IF c.expireAt > 0 /\ pow.now >= c.expireAt
           THEN pow' = [pow EXCEPT !.solve =
                            [c EXCEPT !.pc = "done"] @@ [ret |-> SolveRet(0, FALSE)]]
           ELSE \E h \in HashValues :
                    pow' = [pow EXCEPT !.solve =
                        IF h < target
                        THEN [c EXCEPT !.pc = "done", !.seen = Append(@, h)]
                                 @@ [ret |-> SolveRet(c.nonce, TRUE)]
                        ELSE [c EXCEPT !.nonce = @ + 1, !.seen = Append(@, h)]]
    /\ UNCHANGED <<last, pool, cfg, mgr, sync, srv, req, held, reloaded, svc>>

NextSolve ==
    \/ SolveEnter
    \/ SolveTest
    \/ PowAdvance

InitSolve ==
    /\ pool = [i \in Inst |-> EmptyPool]
    /\ cfg = [i \in Inst |-> [Refresh |-> FALSE, MaxActiveAccounts |-> 0,
                              ClaudeModelMapping |-> DefaultMapping]]
    /\ mgr = [i \in Inst |-> [version |-> 0, cursor |-> 0]]
    /\ sync = [i \in Inst |-> NewSync]
    /\ srv = EmptySrv
    /\ req = IdleReq
    /\ held = NoneHeld
    /\ reloaded = FALSE
    /\ \E a \in Algorithms, d \in Difficulties, e \in SolveExpires :
           pow = [IdlePow EXCEPT !.solve = SolveCall(a, d, e)]
    /\ svc = IdleSvc
    /\ last = NoOp

SpecSolve == InitSolve /\ [][NextSolve]_vars

Solved == pow.solve.pc = "done"
Satisfies(m) == pow.solve.seen[m + 1] < Space \div pow.solve.difficulty

(* C12: for algorithm DeepSeekHashV1 and difficulty d >= 1, a returned     *)
(* (n, true) has hash(n) below floor(2^256 / d) and no smaller nonce has;  *)
(* Solve returns false when the algorithm is not DeepSeekHashV1, and when  *)
(* expire_at > 0 and the time has reached expire_at before a satisfying    *)
(* nonce was tested.                                                       *)
C12_FirstNonceOrFalse ==
    Solved =>
        /\ (pow.solve.algorithm = DeepSeekHashV1 /\ pow.solve.difficulty >= 1
                /\ pow.solve.ret.ok) =>
               /\ Satisfies(pow.solve.ret.nonce)
               /\ \A m \in 0..(pow.solve.ret.nonce - 1) : ~Satisfies(m)
        /\ pow.solve.algorithm # DeepSeekHashV1 => ~pow.solve.ret.ok
        /\ (pow.solve.expireAt > 0 /\ pow.solve.ret.at >= pow.solve.expireAt) =>
               ~pow.solve.ret.ok

\* The part of C12 that the code keeps: the same with the algorithm
\* compared after strings.TrimSpace
FirstNonceOrFalseTrimmed ==
    Solved =>
        /\ pow.solve.ret.ok =>
               /\ TrimSpace(pow.solve.algorithm) = DeepSeekHashV1
               /\ pow.solve.difficulty >= 1
               /\ Satisfies(pow.solve.ret.nonce)
               /\ \A m \in 0..(pow.solve.ret.nonce - 1) : ~Satisfies(m)
        /\ (pow.solve.expireAt > 0 /\ pow.solve.ret.at >= pow.solve.expireAt) =>
               ~pow.solve.ret.ok

(* C13: a challenge with difficulty d <= 1 that is not expired and uses    *)
(* algorithm DeepSeekHashV1 is answered with nonce 0, successfully.        *)
C13_TrivialDifficulty ==
    (/\ Solved
     /\ pow.solve.algorithm = DeepSeekHashV1
     /\ pow.solve.difficulty <= 1
     /\ (pow.solve.expireAt <= 0 \/ pow.solve.ret.at < pow.solve.expireAt))
        => (pow.solve.ret.ok /\ pow.solve.ret.nonce = 0)

\* The part of C13 that the code keeps: difficulty 1
TrivialDifficultyOne ==
    (/\ Solved
     /\ TrimSpace(pow.solve.algorithm) = DeepSeekHashV1
     /\ (pow.solve.expireAt <= 0 \/ pow.solve.ret.at < pow.solve.expireAt))
        => IF pow.solve.difficulty = 1
           THEN pow.solve.ret.ok /\ pow.solve.ret.nonce = 0
           ELSE pow.solve.difficulty <= 0 => ~pow.solve.ret.ok

-----------------------------------------------------------------------------
(* The completion orchestrator (internal/services: OpenAIStream,           *)
(* OpenAINonStream, ClaudeStream, ClaudeNonStream)                         *)
(* One action is one turn of the retry loop: the streaming request, the    *)
(* reading of its body, the JSON request if one is made, and the decision. *)
(* Text and thinking are kept as "is not empty".                           *)

maxRetries == 5
retryDelaySeconds == 800     \* milliseconds

\* What the upstream answers to CompletionRawStreamRequest: err is a
\* connection failure or a status other than 200; data says that a payload
\* line reached the handler; text and thinking say that segments of that
\* kind arrived; finished that the FINISHED status arrived.
StreamErr == [err |-> TRUE, data |-> FALSE, text |-> FALSE, thinking |-> FALSE,
              finished |-> FALSE]
NoData == [err |-> FALSE, data |-> FALSE, text |-> FALSE, thinking |-> FALSE,
           finished |-> FALSE]
StreamAnswers ==
    {StreamErr, NoData} \cup
    [err : {FALSE}, data : {TRUE}, text : BOOLEAN, thinking : BOOLEAN, finished : BOOLEAN]

\* What the upstream answers to CompletionJSONRequest, after
\* extractCompletionFromJSON: err is jerr # nil, ok its third result
JSONAnswers ==
    {[err |-> TRUE, ok |-> FALSE, text |-> FALSE, thinking |-> FALSE],
     [err |-> FALSE, ok |-> FALSE, text |-> FALSE, thinking |-> FALSE]} \cup
    [err : {FALSE}, ok : {TRUE}, text : BOOLEAN, thinking : BOOLEAN]

Retry(json) == [next |-> "retry", json |-> json]
Return(json, status, events, text, thinking) ==
    [next |-> "return", json |-> json,
     resp |-> [status |-> status, events |-> events, text |-> text, thinking |-> thinking]]

OpenAINonStreamMut(attempt, thinkingEnabled, s, j) ==
    IF s.err \/ ~(s.text \/ (s.thinking /\ thinkingEnabled))
    THEN LET finalText == ~j.err /\ j.ok /\ j.text
             finalThinking == ~j.err /\ j.ok /\ j.thinking
         IN  IF finalText \/ finalThinking
             THEN Return(1, 200, << >>, finalText, finalThinking)
             ELSE IF attempt < maxRetries THEN Retry(1)
                  ELSE Return(1, 502, << >>, FALSE, FALSE)
    ELSE Return(0, 200, << >>, s.text, s.thinking /\ thinkingEnabled)

\* OpenAINonStream, one turn of its loop
OpenAINonStream(attempt, thinkingEnabled, s, j) ==
    IF s.err
    THEN LET finalText == ~j.err /\ j.ok /\ j.text
             finalThinking == ~j.err /\ j.ok /\ j.thinking
         IN  IF finalText \/ finalThinking
             THEN Return(1, 200, << >>, finalText, finalThinking)
             ELSE IF attempt < maxRetries THEN Retry(1)
                  ELSE Return(1, 502, << >>, FALSE, FALSE)
    ELSE LET sText == s.text
             sThinking == s.thinking /\ thinkingEnabled
             retryNow == s.finished /\ ~sText /\ ~sThinking /\ attempt < maxRetries
             jsonOK == ~s.data /\ ~j.err /\ j.ok
             finalText == IF jsonOK THEN j.text ELSE sText
             finalThinking == IF jsonOK THEN j.thinking ELSE sThinking
             json == IF s.data THEN 0 ELSE 1
         IN  IF retryNow THEN Retry(0)
             ELSE IF ~s.data /\ ~finalText /\ ~finalThinking
                  THEN IF attempt < maxRetries THEN Retry(1)
                       ELSE Return(1, 502, << >>, FALSE, FALSE)
                  ELSE IF ~finalText /\ ~finalThinking /\ attempt < maxRetries
                       THEN Retry(json)
                       ELSE Return(json, 200, << >>, finalText, finalThinking)

\* OpenAIStream, one turn of its loop; the status line 200 is already sent
OpenAIStream(attempt, thinkingEnabled, s, j) ==
    IF s.err
    THEN IF attempt < maxRetries THEN Retry(0)
         ELSE Return(0, 200, <<"error", "[DONE]">>, FALSE, FALSE)
    ELSE LET sText == s.text
             sThinking == s.thinking /\ thinkingEnabled
             sFirst == s.text \/ s.thinking
             retryNow == /\ s.finished /\ ~sFirst /\ ~sText /\ ~sThinking
                         /\ attempt < maxRetries
             jsonOK == ~s.data /\ ~j.err /\ j.ok
             finalText == IF jsonOK THEN j.text ELSE sText
             finalThinking == IF jsonOK THEN j.thinking /\ thinkingEnabled ELSE sThinking
             firstChunk == sFirst \/ jsonOK
             json == IF s.data THEN 0 ELSE 1
             deltas == IF firstChunk THEN <<"delta">> ELSE << >>
         IN  IF retryNow THEN Retry(0)
             ELSE IF ~s.data /\ ~firstChunk /\ ~finalText /\ ~finalThinking
                  THEN IF attempt < maxRetries THEN Retry(1)
                       ELSE Return(1, 200, <<"error", "[DONE]">>, FALSE, FALSE)
                  ELSE IF ~firstChunk /\ ~finalText /\ ~finalThinking
                              /\ attempt < maxRetries
                       THEN Retry(json)
                       ELSE IF ~s.data /\ ~firstChunk
                            THEN Return(json, 200, <<"error", "[DONE]">>, FALSE, FALSE)
                            ELSE Return(json, 200, deltas \o <<"finish", "[DONE]">>,
                                        finalText, finalThinking)

\* The events of a Claude message: the blocks that are not empty
ClaudeEvents(text, thinking) ==
    <<"message_start">>
        \o (IF thinking THEN <<"thinking">> ELSE << >>)
        \o (IF text THEN <<"text">> ELSE << >>)
        \o <<"message_delta", "message_stop">>

\* ClaudeStream, one turn of its loop; the status line 200 is already sent
ClaudeStream(attempt, s, j) ==
    IF s.err
    THEN IF attempt < maxRetries THEN Retry(0)
         ELSE Return(0, 200, <<"error">>, FALSE, FALSE)
    ELSE LET jsonOK == ~s.data /\ ~j.err /\ j.ok
             finalText == IF jsonOK THEN j.text ELSE s.text
             finalThinking == IF jsonOK THEN j.thinking ELSE s.thinking
             json == IF s.data THEN 0 ELSE 1
         IN  IF ~s.data /\ ~finalText /\ ~finalThinking
             THEN IF attempt < maxRetries THEN Retry(1)
                  ELSE Return(1, 200, <<"error">>, FALSE, FALSE)
             ELSE IF ~finalText /\ ~finalThinking /\ attempt < maxRetries
                  THEN Retry(json)
                  ELSE Return(json, 200, ClaudeEvents(finalText, finalThinking),
                              finalText, finalThinking)

ClaudeNonStreamMut(attempt, s, j) ==
    IF s.err
    THEN Retry(0)
    ELSE Return(0, 200, << >>, s.text, s.thinking)

\* ClaudeNonStream, one turn of its loop
ClaudeNonStream(attempt, s, j) ==
    IF s.err
    THEN IF attempt < maxRetries THEN Retry(0)
         ELSE Return(0, 502, << >>, FALSE, FALSE)
    ELSE LET jsonOK == ~s.data /\ ~j.err /\ j.ok
             finalContent == IF jsonOK THEN j.text ELSE s.text
             finalReasoning == IF jsonOK THEN j.thinking ELSE s.thinking
             json == IF s.data THEN 0 ELSE 1
         IN  IF ~s.data /\ ~finalContent /\ ~finalReasoning
             THEN IF attempt < maxRetries THEN Retry(1)
                  ELSE Return(1, 502, << >>, FALSE, FALSE)
             ELSE IF ~finalContent /\ ~finalReasoning /\ attempt < maxRetries
                  THEN Retry(json)
                  ELSE Return(json, 200, << >>, finalContent, finalReasoning)

Orchestrators == {"OpenAIStream", "OpenAINonStream", "ClaudeStream", "ClaudeNonStream"}
Streaming == {"OpenAIStream", "ClaudeStream"}

\* An attempt that brought nothing: no text and no thinking, neither in
\* the stream nor in the JSON answer if one was asked for
Barren(s, r, j) ==
    /\ ~s.text /\ ~s.thinking
    /\ r.json > 0 => ~(~j.err /\ j.ok /\ (j.text \/ j.thinking))

\* The loop variable and the history of one call
SvcCall(fn, thinkingEnabled) ==
    [pc |-> "attempt", fn |-> fn, thinkingEnabled |-> thinkingEnabled, attempt |-> 0,
     streams |-> 0, slept |-> << >>, barren |-> TRUE]

\* One turn: the streaming request is sent, the turn decides, and a retry
\* sleeps retryDelaySeconds * (attempt + 1) before the next turn
SvcTurn(s, j, r) ==
    /\ svc' = IF r.next = "retry"
              THEN [pc |-> "attempt", fn |-> svc.fn,
                    thinkingEnabled |-> svc.thinkingEnabled,
                    attempt |-> svc.attempt + 1, streams |-> svc.streams + 1,
                    slept |-> Append(svc.slept, retryDelaySeconds * (svc.attempt + 1)),
                    barren |-> svc.barren /\ Barren(s, r, j),
                    turn |-> [k |-> svc.attempt, s |-> s, j |-> j, json |-> r.json]]
              ELSE [pc |-> "done", fn |-> svc.fn,
                    thinkingEnabled |-> svc.thinkingEnabled,
                    attempt |-> svc.attempt, streams |-> svc.streams + 1,
                    slept |-> svc.slept,
                    barren |-> svc.barren /\ Barren(s, r, j),
                    turn |-> [k |-> svc.attempt, s |-> s, j |-> j, json |-> r.json],
                    resp |-> r.resp]
    /\ UNCHANGED <<last, pool, cfg, mgr, sync, srv, req, held, reloaded, pow>>

TurnOpenAINonStream ==
    /\ svc.pc = "attempt" /\ svc.fn = "OpenAINonStream" /\ svc.attempt <= maxRetries
    /\ \E s \in StreamAnswers, j \in JSONAnswers :
           SvcTurn(s, j, OpenAINonStream(svc.attempt, svc.thinkingEnabled, s, j))

TurnOpenAIStream ==
    /\ svc.pc = "attempt" /\ svc.fn = "OpenAIStream" /\ svc.attempt <= maxRetries
    /\ \E s \in StreamAnswers, j \in JSONAnswers :
           SvcTurn(s, j, OpenAIStream(svc.attempt, svc.thinkingEnabled, s, j))

TurnClaudeStream ==
    /\ svc.pc = "attempt" /\ svc.fn = "ClaudeStream" /\ svc.attempt <= maxRetries
    /\ \E s \in StreamAnswers, j \in JSONAnswers :
           SvcTurn(s, j, ClaudeStream(svc.attempt, s, j))

TurnClaudeNonStream ==
    /\ svc.pc = "attempt" /\ svc.fn = "ClaudeNonStream" /\ svc.attempt <= maxRetries
    /\ \E s \in StreamAnswers, j \in JSONAnswers :
           SvcTurn(s, j, ClaudeNonStream(svc.attempt, s, j))

NextSvc ==
    \/ TurnOpenAINonStream
    \/ TurnOpenAIStream
    \/ TurnClaudeStream
    \/ TurnClaudeNonStream

InitSvc ==
    /\ pool = [i \in Inst |-> EmptyPool]
    /\ cfg = [i \in Inst |-> [Refresh |-> FALSE, MaxActiveAccounts |-> 0,
                              ClaudeModelMapping |-> DefaultMapping]]
    /\ mgr = [i \in Inst |-> [version |-> 0, cursor |-> 0]]
    /\ sync = [i \in Inst |-> NewSync]
    /\ srv = EmptySrv
    /\ req = IdleReq
    /\ held = NoneHeld
    /\ reloaded = FALSE
    /\ pow = IdlePow
    /\ \E fn \in Orchestrators, te \in BOOLEAN :
           /\ (fn \in {"ClaudeStream", "ClaudeNonStream"} => te)
           /\ svc = SvcCall(fn, te)
    /\ last = NoOp

\* The upstream answers every request, so a turn that can be taken is taken
SpecSvc == InitSvc /\ [][NextSvc]_vars /\ WF_vars(NextSvc)

Done == svc.pc = "done"
SleptLinear ==
    /\ Len(svc.slept) = svc.attempt
    /\ \A k \in 1..Len(svc.slept) : svc.slept[k] = retryDelaySeconds * k

(* C14: at most maxRetries = 5 streaming completion requests are sent for  *)
(* one client request, attempt k is followed by a backoff of 800ms x (k+1) *)
(* before the next one, and the call always ends with a response.          *)
C14_FiveAttempts ==
    /\ [](svc.streams <= maxRetries /\ SleptLinear)
    /\ <>Done

(* C14, as the code has it: the loop runs for attempt = 0..maxRetries, so  *)
(* up to maxRetries + 1 = 6 streaming requests are sent (5 retries); the   *)
(* backoff and the termination are as stated.                              *)
C14_FiveRetries ==
    /\ [](svc.streams <= maxRetries + 1 /\ SleptLinear)
    /\ <>Done

\* A call that used every attempt: six streaming requests, five backoffs
C14_Witness ==
    /\ Done
    /\ svc.streams = maxRetries + 1
    /\ Len(svc.slept) = maxRetries

(* C15: when every attempt ends without any text and without any thinking, *)
(* a non-streaming request is answered with 502 and a streaming request    *)
(* ends with an error event followed by data: [DONE]; never a 200 with     *)
(* empty content or a normal terminal chunk.                               *)
C15_BarrenGivesError ==
    (Done /\ svc.barren) =>
        IF svc.fn \in Streaming
        THEN svc.resp.events = <<"error", "[DONE]">>
        ELSE svc.resp.status = 502

\* The JSON answer of the last turn carried text or thinking
JSONYields == ~svc.turn.j.err /\ svc.turn.j.ok /\ (svc.turn.j.text \/ svc.turn.j.thinking)
Turned == "turn" \in DOMAIN svc
StreamSilent == ~svc.turn.s.err /\ ~svc.turn.s.data
StreamFinishedEmpty ==
    /\ svc.turn.s.data /\ svc.turn.s.finished
    /\ ~svc.turn.s.text /\ ~svc.turn.s.thinking

(* C16: in one attempt, a stream without any data line is followed by      *)
(* exactly one JSON completion request, and if that yields text or         *)
(* thinking the content is emitted with no further stream attempt; a       *)
(* stream with data lines that reached FINISHED with no text and no        *)
(* thinking, while attempts remain, is followed by no JSON request and by  *)
(* the next stream attempt.                                                *)
C16_BranchesDistinct ==
    Turned =>
        /\ StreamSilent => svc.turn.json = 1
        /\ (StreamSilent /\ JSONYields) =>
               /\ Done
               /\ svc.resp.text = svc.turn.j.text
               /\ svc.resp.thinking = svc.turn.j.thinking
               /\ svc.resp.status = 200
               /\ "error" \notin {svc.resp.events[n] : n \in DOMAIN svc.resp.events}
        /\ (StreamFinishedEmpty /\ svc.turn.k < maxRetries) =>
               /\ svc.turn.json = 0
               /\ svc.pc = "attempt"
               /\ svc.attempt = svc.turn.k + 1

(* C16, as the code has it: the same, except that OpenAIStream emits the   *)
(* thinking of the JSON answer only when thinking is enabled for the       *)
(* model; otherwise it is left out of the response, still with no further  *)
(* stream attempt.                                                         *)
C16_BranchesDistinctThinkingEnabled ==
    Turned =>
        /\ StreamSilent => svc.turn.json = 1
        /\ (StreamSilent /\ JSONYields) =>
               /\ Done
               /\ svc.resp.text = svc.turn.j.text
               /\ svc.resp.thinking =
                      (svc.turn.j.thinking
                          /\ (svc.fn = "OpenAIStream" => svc.thinkingEnabled))
               /\ svc.resp.status = 200
               /\ "error" \notin {svc.resp.events[n] : n \in DOMAIN svc.resp.events}
        /\ (StreamFinishedEmpty /\ svc.turn.k < maxRetries) =>
               /\ svc.turn.json = 0
               /\ svc.pc = "attempt"
               /\ svc.attempt = svc.turn.k + 1

\* Both branches in one call: a finished, empty stream was retried and the
\* next stream had no data line, and the JSON answer was emitted
C16_Witness ==
    /\ Done
    /\ svc.attempt > 0
    /\ StreamSilent /\ JSONYields
    /\ svc.resp.text

-----------------------------------------------------------------------------
(* The session and PoW stages of the handlers (handlers/openai_chat.go,    *)
(* handlers/claude_messages.go)                                            *)

\* strings.Contains, on messages kept word by word: a then b
ContainsWords(m, a, b) == \E n \in 1..(Len(m) - 1) : m[n] = a /\ m[n + 1] = b

InFlight == req.pc \notin {"idle", "begin"}

\* At most one SwitchAccount and one retry per stage; none in pass-through
StageCallsBounded ==
    /\ req.calls.session <= 2 /\ req.calls.pow <= 2
    /\ req.calls.swsession <= 1 /\ req.calls.swpow <= 1
    /\ req.calls.session = 2 => req.calls.swsession = 1
    /\ req.calls.pow = 2 => req.calls.swpow = 1
    /\ ~req.ac.UseConfigToken =>
           /\ req.calls.swsession = 0 /\ req.calls.swpow = 0
           /\ req.calls.session <= 1 /\ req.calls.pow <= 1
           /\ req.pc \in {"pow", "completion"} => req.calls.session = 1
           /\ req.pc = "completion" => req.calls.pow = 1
           /\ req.failed # "none" => req.calls[req.failed] = 1

(* C17: in the session stage and in the PoW stage, pool mode makes at most *)
(* one SwitchAccount and at most one retry (at most two CreateSession, at  *)
(* most two GetPoW); pass-through mode calls the stage exactly once and    *)
(* never SwitchAccount; a stage that has still failed is answered with 401 *)
(* whose message contains 'invalid token', and no completion request is    *)
(* sent.                                                                   *)
C17_StageRetryThenInvalidToken ==
    InFlight =>
        /\ StageCallsBounded
        /\ req.failed # "none" =>
               /\ req.pc = "done"
               /\ req.status = 401
               /\ ContainsWords(req.msg, "invalid", "token")
               /\ req.calls.completion = 0

\* The part of C17 that the code keeps: the message of the PoW stage of
\* ClaudeMessages is "Failed to get PoW."
StageRetryThen401 ==
    InFlight =>
        /\ StageCallsBounded
        /\ req.failed # "none" =>
               /\ req.pc = "done"
               /\ req.status = 401
               /\ req.calls.completion = 0
               /\ ContainsWords(req.msg, "invalid", "token")
                      <=> ~(req.kind = "messages" /\ req.failed = "pow")

\* DetermineModeAndToken refused a caller whose key selects the pool
PoolAuthRefused == req.pc = "done" /\ req.key = "pool" /\ req.ac.nil
NothingAcquired == \A id \in IdUniverse : req.acq[id] = 0

(* C18: in pool mode, when Acquire finds no account the request is         *)
(* answered with 503; when EnsureToken fails for the acquired account the  *)
(* request is answered with 500 and the account is released before the     *)
(* response.                                                               *)
C18_PoolAuthStatus ==
    PoolAuthRefused =>
        IF NothingAcquired
        THEN req.status = 503
        ELSE /\ req.status = 500
             /\ req.rel = req.acq
             /\ pool[Primary].active = req.base

\* The part of C18 that the code keeps: the status for an empty pool is
\* 429 Too Many Requests
PoolAuthStatus429 ==
    PoolAuthRefused =>
        IF NothingAcquired
        THEN req.status = 429 /\ pool[Primary].accounts = << >>
        ELSE /\ req.status = 500
             /\ req.rel = req.acq
             /\ pool[Primary].active = req.base

-----------------------------------------------------------------------------
(* The pool's status and reload (accounts/pool.go: GetStatus, reloadLocked) *)

\* The ids that have a counter entry, found by looking each id up
IdsInUse(p) == {id \in IdUniverse : Count(p.active, id) # 0}

(* C19: GetStatus reports total = the roster size, in_use = the number of  *)
(* distinct account ids with a counter entry, active_sessions = the sum of *)
(* the counters and available = total - in_use; and 0 <= in_use <= total,  *)
(* available >= 0, active_sessions >= in_use.                              *)
C19_StatusConsistent ==
    last.op = "GetStatus" =>
        LET st == last.status
            p == pool[Primary]
        IN  /\ st.total = Len(p.accounts)
            /\ st.in_use = Cardinality(IdsInUse(p))
            /\ ~reloaded => st.active_sessions = SumCounts(held, IdUniverse)
            /\ st.active_sessions = SumCounts(p.active, IdsInUse(p))
            /\ st.available = st.total - st.in_use
            /\ 0 <= st.in_use /\ st.in_use <= st.total
            /\ st.available >= 0
            /\ st.active_sessions >= st.in_use

\* A status read while one account holds two sessions
C19_Witness ==
    /\ last.op = "GetStatus"
    /\ last.status.in_use >= 1
    /\ last.status.active_sessions > last.status.in_use

Occurs(s, x) == Cardinality({n \in DOMAIN s : s[n] = x})
SubCollection(s, t) == \A x \in SeqRange(s) : Occurs(s, x) <= Occurs(t, x)

(* C20: after Reload(new, refresh, max) the roster is a sub-collection of  *)
(* new with exactly max accounts when 0 < max < len(new) and len(new)      *)
(* accounts otherwise, max_accounts equals the size of the roster, and the *)
(* roster changes only in a Reload or an UpdateRuntime.                    *)
C20_ReloadRoster ==
    /\ [](last.op = "Reload" =>
            LET r == pool[Primary].accounts
                n == Len(last.new)
            IN  /\ SubCollection(r, last.new)
                /\ Len(r) = IF 0 < last.max /\ last.max < n THEN last.max ELSE n
                /\ GetStatus(pool[Primary]).max_accounts = Len(r))
    /\ [][pool'[Primary].accounts # pool[Primary].accounts
              => last'.op \in {"Reload", "UpdateRuntime"}]_vars

\* A Reload that had to drop accounts
C20_Witness ==
    /\ last.op = "Reload"
    /\ 0 < last.max /\ last.max < Len(last.new)
    /\ Len(pool[Primary].accounts) = last.max

-----------------------------------------------------------------------------
(* The SSE chunk parser (internal/services: parseChunk)                    *)
(* A chunk is [p, v]: p is << >> when the chunk has no string p and <<s>>  *)
(* otherwise; v is [kind |-> "none"], [kind |-> "string", s |-> ...] or    *)
(* [kind |-> "array", items |-> ...].  An item of an array is a record     *)
(* [map, p, v] with v = << >> or <<s>>; map is FALSE for an item that is   *)
(* no JSON object.                                                         *)

MaxItems == 2        \* longest array v that is explored

TopPs == {<< >>, <<"response/thinking_content">>, <<"thinking_content">>,
          <<"response/content">>, <<"content">>, <<"response/status">>,
          <<"response/search_status">>, <<"other">>}
SubPs == {<< >>, <<"status">>, <<"response/status">>, <<"response/thinking_content">>,
          <<"thinking_content">>, <<"response/content">>, <<"content">>, <<"other">>}
Scalar == [map |-> FALSE, p |-> << >>, v |-> << >>]
SubRecords == [map : {TRUE}, p : SubPs, v : {<< >>, <<"x">>, <<"FINISHED">>}] \cup {Scalar}
ArraysUpTo(n) == UNION {[1..k -> SubRecords] : k \in 0..n}
ChunkValues ==
    {[kind |-> "none"], [kind |-> "string", s |-> "hi"]}
        \cup {[kind |-> "array", items |-> a] : a \in ArraysUpTo(MaxItems)}
Chunks == [p : TopPs, v : ChunkValues]

segment(type, text) == [Type |-> type, Text |-> text]

\* The loop over an array v from item k on; a is [segType, segs, finished]
RECURSIVE parseItems(_, _, _)
parseItems(items, k, a) ==
    IF k > Len(items) THEN a
    ELSE LET m == items[k]
         IN  IF ~m.map THEN parseItems(items, k + 1, a)
             ELSE IF m.p = <<"status">>
             THEN parseItems(items, k + 1,
                      [a EXCEPT !.finished = @ \/ m.v = <<"FINISHED">>])
             ELSE IF m.p \in {<<"response/search_status">>, <<"response/status">>}
             THEN parseItems(items, k + 1, a)
             ELSE LET segType ==
                          IF m.p \in {<<"response/thinking_content">>, <<"thinking_content">>}
                          THEN "thinking"
                          ELSE IF m.p \in {<<"response/content">>, <<"content">>}
                               THEN "text"
                               ELSE a.segType
                  IN  parseItems(items, k + 1,
                          [a EXCEPT !.segType = segType,
                                    !.segs = IF m.v = << >> THEN @
                                             ELSE Append(@, segment(segType, m.v[1]))])

\* parseChunk: the type for the next chunk, the segments, and finished
parseChunk(chunk, currentType0) ==
    LET given == IF currentType0 = "" THEN "text" ELSE currentType0
        currentType ==
            IF chunk.p = <<"response/thinking_content">> THEN "thinking"
            ELSE IF chunk.p = <<"response/content">> THEN "text"
            ELSE given
    IN  IF chunk.p \in {<<"response/search_status">>, <<"response/status">>}
        THEN [type |-> given, segs |-> << >>, finished |-> FALSE]
        ELSE IF chunk.v.kind = "string"
        THEN [type |-> currentType, segs |-> <<segment(currentType, chunk.v.s)>>,
              finished |-> FALSE]
        ELSE IF chunk.v.kind = "array"
        THEN LET a == parseItems(chunk.v.items, 1,
                          [segType |-> currentType, segs |-> << >>, finished |-> FALSE])
             IN  [type |-> currentType, segs |-> a.segs, finished |-> a.finished]
        ELSE [type |-> currentType, segs |-> << >>, finished |-> FALSE]

\* One chunk goes through parseChunk with the type the reader holds
ParseStep ==
    /\ svc.pc = "chunk"
    /\ svc' = [pc |-> "parsed", ptype |-> svc.ptype, chunk |-> svc.chunk,
               out |-> parseChunk(svc.chunk, svc.ptype)]
    /\ UNCHANGED <<last, pool, cfg, mgr, sync, srv, req, held, reloaded, pow>>

NextParse == ParseStep

InitParse ==
    /\ pool = [i \in Inst |-> EmptyPool]
    /\ cfg = [i \in Inst |-> [Refresh |-> FALSE, MaxActiveAccounts |-> 0,
                              ClaudeModelMapping |-> DefaultMapping]]
    /\ mgr = [i \in Inst |-> [version |-> 0, cursor |-> 0]]
    /\ sync = [i \in Inst |-> NewSync]
    /\ srv = EmptySrv
    /\ req = IdleReq
    /\ held = NoneHeld
    /\ reloaded = FALSE
    /\ pow = IdlePow
    /\ \E t \in {"text", "thinking"}, c \in Chunks :
           svc = [pc |-> "chunk", ptype |-> t, chunk |-> c]
    /\ last = NoOp

SpecParse == InitParse /\ [][NextParse]_vars

\* What the specification expects of a chunk
ThinkingPs == {<<"response/thinking_content">>, <<"thinking_content">>}
TextPs == {<<"response/content">>, <<"content">>}
TypeOfP(p, otherwise) ==
    IF p \in ThinkingPs THEN "thinking" ELSE IF p \in TextPs THEN "text" ELSE otherwise

RECURSIVE ExpectedItems(_, _, _)
ExpectedItems(items, k, type) ==
    IF k > Len(items) THEN << >>
    ELSE LET m == items[k]
             here == IF ~m.map THEN << >>
                     ELSE IF m.p \notin ({<< >>} \cup ThinkingPs \cup TextPs) THEN << >>
                     ELSE IF m.v = << >> THEN << >>
                     ELSE <<segment(TypeOfP(m.p, type), m.v[1])>>
         IN  here \o ExpectedItems(items, k + 1, type)

ExpectedSegs(chunk, type) ==
    IF chunk.v.kind = "string" THEN <<segment(type, chunk.v.s)>>
    ELSE IF chunk.v.kind = "array" THEN ExpectedItems(chunk.v.items, 1, type)
    ELSE << >>

Parsed == svc.pc = "parsed"

(* C21: starting from the reader's type, a chunk whose top-level p is      *)
(* 'response/thinking_content' or 'thinking_content' sets the type to      *)
(* thinking, 'response/content' or 'content' sets it to text, and a chunk  *)
(* without p keeps it; a string v emits one segment of the current type;   *)
(* in an array v a sub-record's p changes the type for that sub-record     *)
(* only, and a sub-record with an unknown p emits nothing.                 *)
C21_ParseChunkStateMachine ==
    (Parsed /\ svc.chunk.p \in ({<< >>} \cup ThinkingPs \cup TextPs)) =>
        /\ svc.out.type = TypeOfP(svc.chunk.p, svc.ptype)
        /\ svc.out.segs = ExpectedSegs(svc.chunk, svc.out.type)

\* The part of C21 that the code keeps: the 'response/...' names at the top
\* level, the type kept without p, and a string v
ParseChunkTopLevel ==
    (Parsed /\ svc.chunk.p \in {<< >>, <<"response/thinking_content">>,
                                <<"response/content">>}) =>
        /\ svc.out.type = TypeOfP(svc.chunk.p, svc.ptype)
        /\ svc.chunk.v.kind = "string" =>
               svc.out.segs = <<segment(svc.out.type, svc.chunk.v.s)>>
        /\ (svc.chunk.v.kind = "array" /\ Len(svc.chunk.v.items) <= 1
                /\ \A n \in DOMAIN svc.chunk.v.items :
                       svc.chunk.v.items[n].p # <<"other">>) =>
               svc.out.segs = ExpectedSegs(svc.chunk, svc.out.type)

-----------------------------------------------------------------------------
(* Tool-call detection (internal/services: DetectToolCalls)                *)
(* A text is a sequence of lexemes: punctuation, white space, and one      *)
(* lexeme per call object {"input":{"k":n},"name":N}.  json.Unmarshal      *)
(* decodes every number into a float64; the mantissa is FloatBits wide in  *)
(* place of 53.                                                            *)

FloatBits == 2
MaxCalls == 2        \* longest list of calls that is serialized

\* The nearest value a float with FloatBits of mantissa can hold, ties to even
Float64(n) ==
    IF n <= 2 ^ FloatBits THEN n
    ELSE IF n % 2 = 0 THEN n
    ELSE IF ((n - 1) \div 2) % 2 = 0 THEN n - 1 ELSE n + 1

Punct(c) == [t |-> "punct", s |-> c, name |-> "", input |-> << >>]
CallLexeme(call) == [t |-> "call", s |-> "", name |-> call.name, input |-> call.input]
IsWhite(x) == x.t = "punct" /\ x.s \in {" ", "\n", "\t", "\r"}

\* strings.TrimSpace on lexemes
RECURSIVE TrimLexLeft(_)
TrimLexLeft(text) ==
    IF text # << >> /\ IsWhite(Head(text)) THEN TrimLexLeft(Tail(text)) ELSE text
RECURSIVE TrimLexRight(_)
TrimLexRight(text) ==
    IF text # << >> /\ IsWhite(text[Len(text)])
    THEN TrimLexRight(SubSeq(text, 1, Len(text) - 1)) ELSE text
TrimLex(text) == TrimLexRight(TrimLexLeft(text))

HasPrefix(text, pre) == Len(text) >= Len(pre) /\ SubSeq(text, 1, Len(pre)) = pre
HasSuffix(text, suf) ==
    Len(text) >= Len(suf) /\ SubSeq(text, Len(text) - Len(suf) + 1, Len(text)) = suf

ToolCallsPrefix == <<Punct("{"), Punct("\"tool_calls\""), Punct(":")>>
ToolCallsSuffix == <<Punct("]"), Punct("}")>>

\* json.Marshal of {"tool_calls": calls}
RECURSIVE MarshalCalls(_)
MarshalCalls(calls) ==
    IF calls = << >> THEN << >>
    ELSE IF Len(calls) = 1 THEN <<CallLexeme(calls[1])>>
    ELSE <<CallLexeme(calls[1]), Punct(",")>> \o MarshalCalls(Tail(calls))
Marshal(calls) ==
    ToolCallsPrefix \o <<Punct("[")>> \o MarshalCalls(calls) \o ToolCallsSuffix

\* json.Unmarshal of the text into a map, then body["tool_calls"].([]any):
\* white space between lexemes is skipped, numbers become float64
Decoded(x) ==
    [name |-> x.name,
     input |-> IF x.input = << >> THEN << >> ELSE <<Float64(x.input[1])>>]
Unmarshal(text) ==
    LET lex == SelectSeq(text, LAMBDA x : ~IsWhite(x))
        n == Len(lex)
        inner == IF n >= 6 THEN SubSeq(lex, 5, n - 2) ELSE << >>
        wellFormed ==
            /\ n >= 6
            /\ SubSeq(lex, 1, 4) = ToolCallsPrefix \o <<Punct("[")>>
            /\ SubSeq(lex, n - 1, n) = ToolCallsSuffix
            /\ (inner = << >> \/ Len(inner) % 2 = 1)
            /\ \A k \in DOMAIN inner :
                   IF k % 2 = 1 THEN inner[k].t = "call" ELSE inner[k] = Punct(",")
    IN  IF wellFormed
        THEN [err |-> FALSE,
              arr |-> [k \in 1..((Len(inner) + 1) \div 2) |-> Decoded(inner[2 * k - 1])]]
        ELSE [err |-> TRUE, arr |-> << >>]

DetectToolCalls(text, tools) ==
    LET clean == TrimLex(text)
    IN  IF ~HasPrefix(clean, ToolCallsPrefix) \/ ~HasSuffix(clean, ToolCallsSuffix)
        THEN << >>
        ELSE LET body == Unmarshal(clean)
                 allowed == {tools[k] : k \in DOMAIN tools}
             IN  IF body.err THEN << >>
                 ELSE SelectSeq(body.arr, LAMBDA c : c.name \in allowed)

ToolNames == {"a", "b", "c"}
NumberValues == {0, 1, 2 ^ FloatBits, 2 ^ FloatBits + 1}
ToolCalls == [name : ToolNames, input : {<<n>> : n \in NumberValues}]
CallLists == UNION {[1..k -> ToolCalls] : k \in 0..MaxCalls}
ToolLists == {<< >>, <<"a">>, <<"b", "a">>}

\* The texts: the serialization, the same with white space around it or
\* inside it, and texts that miss the prefix or the suffix
Forms == {"compact", "padded", "spaced", "noprefix", "nosuffix"}
TextOf(calls, form) ==
    LET m == Marshal(calls)
    IN  IF form = "compact" THEN m
        ELSE IF form = "padded" THEN <<Punct(" ")>> \o m \o <<Punct("\n")>>
        ELSE IF form = "spaced"
             THEN SubSeq(m, 1, Len(m) - 1) \o <<Punct("\n"), Punct("}")>>
        ELSE IF form = "noprefix" THEN <<Punct("x")>> \o m
        ELSE m \o <<Punct("x")>>

DetectStep ==
    /\ svc.pc = "text"
    /\ svc' = [pc |-> "detected", calls |-> svc.calls, form |-> svc.form,
               tools |-> svc.tools,
               out |-> DetectToolCalls(TextOf(svc.calls, svc.form), svc.tools)]
    /\ UNCHANGED <<last, pool, cfg, mgr, sync, srv, req, held, reloaded, pow>>

NextDetect == DetectStep

InitDetect ==
    /\ pool = [i \in Inst |-> EmptyPool]
    /\ cfg = [i \in Inst |-> [Refresh |-> FALSE, MaxActiveAccounts |-> 0,
                              ClaudeModelMapping |-> DefaultMapping]]
    /\ mgr = [i \in Inst |-> [version |-> 0, cursor |-> 0]]
    /\ sync = [i \in Inst |-> NewSync]
    /\ srv = EmptySrv
    /\ req = IdleReq
    /\ held = NoneHeld
    /\ reloaded = FALSE
    /\ pow = IdlePow
    /\ \E calls \in CallLists, form \in Forms, tools \in ToolLists :
           svc = [pc |-> "text", calls |-> calls, form |-> form, tools |-> tools]
    /\ last = NoOp

SpecDetect == InitDetect /\ [][NextDetect]_vars

Detected == svc.pc = "detected"
Declared(c) == c.name \in {svc.tools[k] : k \in DOMAIN svc.tools}

(* C22: DetectToolCalls applied to the serialization of a list of calls    *)
(* returns exactly the calls whose name is declared, each with its name    *)
(* and its input, in their original order (so [{N, I}] for one declared    *)
(* call and nothing for an undeclared one); a text that does not start     *)
(* with {"tool_calls": or does not end with ]} yields nothing.             *)
C22_DetectRoundTrip ==
    Detected =>
        /\ svc.form = "compact" => svc.out = SelectSeq(svc.calls, Declared)
        /\ svc.form \in {"noprefix", "nosuffix", "spaced"} => svc.out = << >>

\* The part of C22 that the code keeps: names, order and filtering, with
\* every number of an input replaced by the nearest float64
DetectRoundTripFloat ==
    Detected =>
        /\ svc.form \in {"compact", "padded"} =>
               svc.out = SelectSeq([k \in DOMAIN svc.calls |->
                                       Decoded(CallLexeme(svc.calls[k]))], Declared)
        /\ svc.form \in {"noprefix", "nosuffix", "spaced"} => svc.out = << >>

-----------------------------------------------------------------------------
(* The segment loops of the four assemblers (internal/services)            *)
(* A segment's text is a sequence of pieces, so that strings.HasPrefix is  *)
(* computed; finalText and finalThinking are the concatenations.           *)

MaxSegs == 3         \* longest segment stream of one chunk sequence

Citation == <<"[citation:">>
SegTexts == {<<"answer ">>, <<"[citation:", "1]">>, <<"more">>, <<"see ", "[citation:", "2]">>}
Segments == [Type : {"text", "thinking"}, Text : SegTexts]
SegStreams == UNION {[1..k -> Segments] : k \in 0..MaxSegs}

\* The loop over the segments in OpenAIStream and OpenAINonStream from
\* segment k on; a is [finalText, finalThinking, deltas], deltas being the
\* content and reasoning_content written to the client (OpenAIStream only)
RECURSIVE openAISegments(_, _, _, _, _)
openAISegments(segs, k, searchEnabled, thinkingEnabled, a) ==
    IF k > Len(segs) THEN a
    ELSE LET v == segs[k].Text
         IN  IF searchEnabled /\ HasPrefix(v, Citation)
             THEN openAISegments(segs, k + 1, searchEnabled, thinkingEnabled, a)
             ELSE IF segs[k].Type = "thinking"
             THEN openAISegments(segs, k + 1, searchEnabled, thinkingEnabled,
                      IF thinkingEnabled
                      THEN [a EXCEPT !.finalThinking = @ \o v,
                                     !.deltas = Append(@, [reasoning_content |-> v])]
                      ELSE a)
             ELSE openAISegments(segs, k + 1, searchEnabled, thinkingEnabled,
                      [a EXCEPT !.finalText = @ \o v,
                                !.deltas = Append(@, [content |-> v])])

\* The loop over the segments in ClaudeStream and ClaudeNonStream
RECURSIVE claudeSegments(_, _, _)
claudeSegments(segs, k, a) ==
    IF k > Len(segs) THEN a
    ELSE claudeSegments(segs, k + 1,
             IF segs[k].Type = "thinking"
             THEN [a EXCEPT !.finalThinking = @ \o segs[k].Text]
             ELSE [a EXCEPT !.finalText = @ \o segs[k].Text])

NoText == [finalText |-> << >>, finalThinking |-> << >>, deltas |-> << >>]

Assemble(fn, segs, searchEnabled, thinkingEnabled) ==
    IF fn \in {"OpenAIStream", "OpenAINonStream"}
    THEN openAISegments(segs, 1, searchEnabled, thinkingEnabled, NoText)
    ELSE claudeSegments(segs, 1, NoText)

AssembleStep ==
    /\ svc.pc = "segs"
    /\ svc' = [pc |-> "assembled", fn |-> svc.fn, segs |-> svc.segs,
               searchEnabled |-> svc.searchEnabled,
               thinkingEnabled |-> svc.thinkingEnabled,
               out |-> Assemble(svc.fn, svc.segs, svc.searchEnabled, svc.thinkingEnabled)]
    /\ UNCHANGED <<last, pool, cfg, mgr, sync, srv, req, held, reloaded, pow>>

NextAssemble == AssembleStep

InitAssemble ==
    /\ pool = [i \in Inst |-> EmptyPool]
    /\ cfg = [i \in Inst |-> [Refresh |-> FALSE, MaxActiveAccounts |-> 0,
                              ClaudeModelMapping |-> DefaultMapping]]
    /\ mgr = [i \in Inst |-> [version |-> 0, cursor |-> 0]]
    /\ sync = [i \in Inst |-> NewSync]
    /\ srv = EmptySrv
    /\ req = IdleReq
    /\ held = NoneHeld
    /\ reloaded = FALSE
    /\ pow = IdlePow
    /\ \E fn \in Orchestrators, segs \in SegStreams, se \in BOOLEAN, te \in BOOLEAN :
           svc = [pc |-> "segs", fn |-> fn, segs |-> segs, searchEnabled |-> se,
                  thinkingEnabled |-> te]
    /\ last = NoOp

SpecAssemble == InitAssemble /\ [][NextAssemble]_vars

Assembled == svc.pc = "assembled"

\* The text segments that are no citation, in order
KeptText(segs) ==
    SelectSeq(segs, LAMBDA g : g.Type = "text" /\ ~HasPrefix(g.Text, Citation))
RECURSIVE Concat(_)
Concat(segs) == IF segs = << >> THEN << >> ELSE Head(segs).Text \o Concat(Tail(segs))
ContentDeltas(deltas) ==
    SelectSeq(deltas, LAMBDA d : "content" \in DOMAIN d)

(* C23: in all four assemblers, with search_enabled on, every text segment *)
(* that begins with '[citation:' is suppressed (not emitted, not appended  *)
(* to finalText) and all other text segments are emitted in their order.   *)
C23_CitationsSuppressed ==
    (Assembled /\ svc.searchEnabled) =>
        /\ svc.out.finalText = Concat(KeptText(svc.segs))
        /\ svc.fn = "OpenAIStream" =>
               ContentDeltas(svc.out.deltas)
                   = [k \in DOMAIN KeptText(svc.segs) |->
                          [content |-> KeptText(svc.segs)[k].Text]]

\* The part of C23 that the code keeps: the two OpenAI assemblers
CitationsSuppressedOpenAI ==
    (Assembled /\ svc.searchEnabled) =>
        IF svc.fn \in {"OpenAIStream", "OpenAINonStream"}
        THEN /\ svc.out.finalText = Concat(KeptText(svc.segs))
             /\ svc.fn = "OpenAIStream" =>
                    ContentDeltas(svc.out.deltas)
                        = [k \in DOMAIN KeptText(svc.segs) |->
                               [content |-> KeptText(svc.segs)[k].Text]]
        ELSE svc.out.finalText
                 = Concat(SelectSeq(svc.segs, LAMBDA g : g.Type = "text"))

-----------------------------------------------------------------------------
\* The cloud-sync server's store: sync_items (one row per user and path) and
\* the append-only sync_events log. Every write runs in one transaction.

MaxEvents == 2       \* no write is accepted once the log has this many events
Users == {"u1", "u2"}
PathInputs == {<<"a">>, <<"b", " ">>, << >>}
MetaInputs == {"m1", "m2"}
BaseInputs == {<< >>} \cup {<<v>> : v \in 1..MaxEvents}

NewStore == [items |-> << >>, events |-> << >>]

computeHash(path, meta) == <<path, meta>>
newItemID(userID, path) == <<userID>> \o path

\* The ids a client sends to Delete and Restore: ids the server hands out,
\* one of them padded; each is unknown to the other user
IdInputs == {newItemID("u1", <<"a", " ">>), newItemID("u1", <<"b">>),
             newItemID("u2", <<"a">>)}

UserVersions(events, userID) ==
    {events[i].Version : i \in {j \in 1..Len(events) : events[j].UserID = userID}}

NextVersionTxMut(events, userID) == Len(events) + 1

\* SELECT COALESCE(MAX(version), 0) + 1 FROM sync_events WHERE user_id = ?
NextVersionTx(events, userID) ==
    LET vs == UserVersions(events, userID)
    IN IF vs = {} THEN 1 ELSE (CHOOSE v \in vs : \A w \in vs : w <= v) + 1

\* INSERT ... ON CONFLICT(user_id, path) DO UPDATE
UpsertItemTx(items, item) == Put(items, <<item.UserID, item.Path>>, item)

InsertEventTx(events, item, evtType) ==
    Append(events, [UserID |-> item.UserID, ItemID |-> item.ID, Path |-> item.Path,
                    Type |-> evtType, Version |-> item.Version, Hash |-> item.Hash])

\* What a write returns to the handler, with the HTTP status writeError or
\* c.JSON gives it; a failed transaction is rolled back
StoreOk(s, item, evtType) ==
    [kind |-> "ok", status |-> 200, Version |-> item.Version, Hash |-> item.Hash,
     Deleted |-> item.Deleted,
     store |-> [items |-> UpsertItemTx(s.items, item),
                events |-> InsertEventTx(s.events, item, evtType)]]

StoreConflict(s, existing) ==
    [kind |-> "conflict", status |-> 409, Version |-> existing.Version,
     Hash |-> existing.Hash, Deleted |-> existing.Deleted, store |-> s]

StoreError(s, kind, status) ==
    [kind |-> kind, status |-> status, Version |-> 0, Hash |-> << >>,
     Deleted |-> FALSE, store |-> s]

\* SyncService.Upsert; BaseVersion is << >> for nil
UpsertMut(s, userID, in) ==
    LET path == TrimSpace(in.Path)
        key == <<userID, path>>
        item == [ID |-> IF key \in DOMAIN s.items THEN s.items[key].ID
                        ELSE newItemID(userID, path),
                 UserID |-> userID, Path |-> path, Metadata |-> in.Metadata,
                 Version |-> NextVersionTx(s.events, userID),
                 Hash |-> computeHash(path, in.Metadata), Deleted |-> FALSE]
    IN IF path = << >> THEN StoreError(s, "error", 400) ELSE StoreOk(s, item, "upsert")

Upsert(s, userID, in) ==
    LET path == TrimSpace(in.Path)
        key == <<userID, path>>
        exists == key \in DOMAIN s.items
        item == [ID |-> IF exists THEN s.items[key].ID ELSE newItemID(userID, path),
                 UserID |-> userID, Path |-> path, Metadata |-> in.Metadata,
                 Version |-> NextVersionTx(s.events, userID),
                 Hash |-> computeHash(path, in.Metadata), Deleted |-> FALSE]
    IN IF path = << >>
       THEN StoreError(s, "error", 400)
       ELSE IF exists /\ in.BaseVersion # << >>
                  /\ in.BaseVersion[1] # s.items[key].Version
       THEN StoreConflict(s, s.items[key])
       ELSE StoreOk(s, item, "upsert")

\* GetItemByIDTx: the keys of the user's rows with this id
ItemByID(items, userID, id) ==
    {k \in DOMAIN items : k[1] = userID /\ items[k].ID = id}

\* SyncService.setDeleteState, behind Delete and Restore
setDeleteState(s, userID, id, deleted, evtType, baseVersion) ==
    LET found == ItemByID(s.items, userID, TrimSpace(id))
    IN IF found = {}
       THEN StoreError(s, "not found", 404)
       ELSE LET item == s.items[CHOOSE k \in found : TRUE]
            IN IF baseVersion # << >> /\ baseVersion[1] # item.Version
               THEN StoreConflict(s, item)
               ELSE StoreOk(s, [item EXCEPT
                                   !.Version = NextVersionTx(s.events, userID),
                                   !.Deleted = deleted], evtType)

Delete(s, userID, id, baseVersion) ==
    setDeleteState(s, userID, id, TRUE, "delete", baseVersion)

Restore(s, userID, id, baseVersion) ==
    setDeleteState(s, userID, id, FALSE, "restore", baseVersion)

StoreRest == <<pool, cfg, mgr, sync, req, held, reloaded, pow, svc>>

\* What the step leaves in last: the request and the response
Written(op, userID, target, base, r) ==
    /\ Len(srv.events) < MaxEvents \/ r.kind # "ok"
    /\ srv' = r.store
    /\ last' = [op |-> op, user |-> userID, target |-> target, base |-> base,
                kind |-> r.kind, status |-> r.status, Version |-> r.Version,
                Hash |-> r.Hash, Deleted |-> r.Deleted]
    /\ UNCHANGED StoreRest

StoreUpsert ==
    \E u \in Users, p \in PathInputs, m \in MetaInputs, b \in BaseInputs :
          Written("upsert", u, <<u, TrimSpace(p)>>, b,
                  Upsert(srv, u, [Path |-> p, Metadata |-> m, BaseVersion |-> b]))

StoreDelete ==
    \E u \in Users, id \in IdInputs, b \in BaseInputs :
          Written("delete", u, TrimSpace(id), b, Delete(srv, u, id, b))

StoreRestore ==
    \E u \in Users, id \in IdInputs, b \in BaseInputs :
          Written("restore", u, TrimSpace(id), b, Restore(srv, u, id, b))

NextStore == StoreUpsert \/ StoreDelete \/ StoreRestore

\* A server whose database has just been migrated: both tables are empty
InitStore ==
    /\ pool = [i \in Inst |-> EmptyPool]
    /\ cfg = [i \in Inst |-> [Refresh |-> FALSE, MaxActiveAccounts |-> 0,
                              ClaudeModelMapping |-> DefaultMapping]]
    /\ mgr = [i \in Inst |-> [version |-> 0, cursor |-> 0]]
    /\ sync = [i \in Inst |-> NewSync]
    /\ srv = NewStore
    /\ req = IdleReq
    /\ held = NoneHeld
    /\ reloaded = FALSE
    /\ last = NoOp
    /\ pow = IdlePow
    /\ svc = IdleSvc

SpecStore == InitStore /\ [][NextStore]_vars

\* The row a request is aimed at, in a given store: by (user, path) for
\* Upsert, by (user, id) for Delete and Restore
Target(items, l) ==
    IF l.op = "upsert" THEN {l.target} \cap DOMAIN items
    ELSE ItemByID(items, l.user, l.target)

Succeeded == last'.op \in {"upsert", "delete", "restore"} /\ last'.kind = "ok"
                /\ srv' # srv

\* The versions of one user's events, in log order, are 1, 2, 3, ...
Consecutive(events, userID) ==
    LET mine == SelectSeq(events, LAMBDA e : e.UserID = userID)
    IN \A i \in 1..Len(mine) : mine[i].Version = i

Wrote == last'.op \in {"upsert", "delete", "restore"}

\* C25: a write that carries a base_version for an existing item succeeds
\* exactly when base_version is the item's current version; otherwise it is
\* answered 409 with the item's current version and hash, and items and event
\* log stay as they were. A write without base_version, and an Upsert of a
\* path that is not stored yet, never conflict
C25_ConflictIffStaleBase ==
    [][Wrote =>
        LET found == Target(srv.items, last')
            cur == srv.items[CHOOSE k \in found : TRUE]
        IN /\ (found # {} /\ last'.base # << >>) =>
                 /\ (last'.kind = "ok") <=> (last'.base[1] = cur.Version)
                 /\ (last'.base[1] # cur.Version) =>
                       /\ last'.kind = "conflict" /\ last'.status = 409
                       /\ last'.Version = cur.Version /\ last'.Hash = cur.Hash
                       /\ srv' = srv
           /\ (found # {} /\ last'.base = << >>) => last'.kind = "ok"
           /\ (found = {} \/ last'.base = << >>) => last'.kind # "conflict"
           /\ (last'.kind # "ok") => srv' = srv]_vars

\* A Delete with a stale base_version has been refused with the current
\* version 2 of the item
C25_Witness ==
    /\ last.op = "delete" /\ last.kind = "conflict" /\ last.status = 409
    /\ last.base = <<1>> /\ last.Version = 2

-----------------------------------------------------------------------------
(* The roster's identifiers (accounts/pool.go: reloadLocked, AccountID)    *)

Distinct(accts) ==
    \A i, j \in 1..Len(accts) : i # j => AccountID(accts[i]) # AccountID(accts[j])

\* C26: after NewPool and after every Reload no two roster entries have the
\* same identifier, and the total GetStatus reports counts distinct
\* identifiers
C26_RosterIdsDistinct ==
    /\ Distinct(pool[Primary].accounts)
    /\ last.op = "GetStatus" =>
           last.status.total = Cardinality(RosterIds(pool[Primary].accounts))

\* What reloadLocked keeps instead: the roster holds every entry it was
\* given, so two entries share an identifier only if the input had them
RosterIdsAsGiven ==
    last.op = "Reload" =>
        /\ SubCollection(pool[Primary].accounts, last.new)
        /\ Distinct(last.new) => Distinct(pool[Primary].accounts)

-----------------------------------------------------------------------------
(* The pool under concurrent callers: the handlers' goroutines call        *)
(* Acquire, Release, GetStatus and EnsureToken while the cloud-sync        *)
(* manager's goroutine calls Reload and the admin handler UpdateRuntime.   *)
(* svc.mu is the goroutine that holds p.mu (0: unlocked), svc.g[i] is      *)
(* where goroutine i is inside the method it called.                       *)

NumGoroutines == 2
Goroutines == 1..NumGoroutines

Writers == {"Reload", "UpdateRuntime"}
Locking == Writers \cup {"Acquire", "Release", "GetStatus", "SnapshotConfigAccounts"}
LockRosters == {<<AcctA>>, <<AcctA, AcctB>>}

Resting == [pc |-> "idle", op |-> "", accounts |-> << >>, refresh |-> FALSE,
            max |-> 0, acct |-> << >>, seen |-> FALSE]

Calls ==
    {[Resting EXCEPT !.op = "Reload", !.accounts = r, !.refresh = rf, !.max = mx] :
        r \in LockRosters, rf \in BOOLEAN, mx \in {0, 1}}
    \cup {[Resting EXCEPT !.op = "UpdateRuntime", !.refresh = rf, !.max = mx] :
        rf \in BOOLEAN, mx \in {0, 1}}
    \cup {[Resting EXCEPT !.op = o] : o \in {"Acquire", "GetStatus", "SnapshotConfigAccounts"}}
    \cup {[Resting EXCEPT !.op = o, !.acct = <<a>>] :
        o \in {"Release", "EnsureToken"}, a \in {AcctA, AcctB}}

\* The goroutine is between p.mu.Lock() and the deferred p.mu.Unlock()
Inside(i) == svc.g[i].pc \in {"refresh", "roster", "body", "unlock"}

\* The goroutine is inside Reload or UpdateRuntime and has writes to make or
\* has made them
Writing(i) == svc.g[i].op \in Writers /\ svc.g[i].pc \in {"refresh", "roster", "unlock"}

LockRest == <<cfg, mgr, sync, srv, req, held, reloaded, last, pow>>

Go(i, pc) == [svc EXCEPT !.g[i].pc = pc]

\* A goroutine calls a pool method; EnsureToken does not lock
GoCall(i) ==
    /\ svc.g[i].pc = "idle"
    /\ \E c \in Calls :
          /\ c.op = "Acquire" => Sessions(pool[Primary]) < MaxSessions
          /\ svc' = [svc EXCEPT !.g[i] =
                        [c EXCEPT !.pc = IF c.op \in Locking THEN "lock" ELSE "read"]]
    /\ UNCHANGED <<pool, LockRest>>

\* p.mu.Lock()
GoLock(i) ==
    /\ svc.g[i].pc = "lock"
    /\ svc.mu = 0
    /\ svc' = [svc EXCEPT !.mu = i,
                          !.g[i].pc = IF svc.g[i].op \in Writers THEN "refresh" ELSE "body",
                          !.g[i].accounts = IF svc.g[i].op = "UpdateRuntime"
                                            THEN snapshotConfigLocked(pool[Primary])
                                            ELSE @]
    /\ UNCHANGED <<pool, LockRest>>

\* reloadLocked, first statement: p.refresh = refresh
GoWriteRefresh(i) ==
    /\ svc.g[i].pc = "refresh"
    /\ pool' = [pool EXCEPT ![Primary].refresh = svc.g[i].refresh]
    /\ svc' = Go(i, "roster")
    /\ UNCHANGED LockRest

\* reloadLocked, the rest: accounts, maxAccounts and the pruned counter
GoWriteRoster(i) ==
    /\ svc.g[i].pc = "roster"
    /\ \E p \in reloadLocked(pool[Primary], svc.g[i].accounts, svc.g[i].refresh,
                             svc.g[i].max) :
          pool' = [pool EXCEPT ![Primary] = p]
    /\ svc' = Go(i, "unlock")
    /\ UNCHANGED LockRest

\* The body of Acquire, Release, GetStatus or SnapshotConfigAccounts
GoBody(i) ==
    /\ svc.g[i].pc = "body"
    /\ \/ /\ svc.g[i].op = "Acquire"
          /\ \E r \in Acquire(pool[Primary], {}) :
                pool' = [pool EXCEPT ![Primary] = r.pool]
       \/ /\ svc.g[i].op = "Release"
          /\ pool' = [pool EXCEPT ![Primary] = Release(@, svc.g[i].acct)]
       \/ /\ svc.g[i].op \in {"GetStatus", "SnapshotConfigAccounts"}
          /\ UNCHANGED pool
    /\ svc' = Go(i, "unlock")
    /\ UNCHANGED LockRest

\* The deferred p.mu.Unlock(), and the return
GoUnlock(i) ==
    /\ svc.g[i].pc = "unlock"
    /\ svc' = [svc EXCEPT !.mu = 0, !.g[i] = Resting]
    /\ UNCHANGED <<pool, LockRest>>

\* EnsureToken reads p.refresh. A read that races with a writer's store may
\* give either value
GoReadRefresh(i) ==
    /\ svc.g[i].pc = "read"
    /\ \E seen \in IF \E j \in Goroutines \ {i} : Writing(j)
                   THEN BOOLEAN ELSE {pool[Primary].refresh} :
          svc' = [svc EXCEPT !.g[i].pc = "login", !.g[i].seen = seen]
    /\ UNCHANGED <<pool, LockRest>>

\* The rest of EnsureToken works on the caller's copy of the account
GoEnsureReturn(i) ==
    /\ svc.g[i].pc = "login"
    /\ svc' = [svc EXCEPT !.g[i] = Resting]
    /\ UNCHANGED <<pool, LockRest>>

NextLock ==
    \E i \in Goroutines :
        \/ GoCall(i)
        \/ GoLock(i)
        \/ GoWriteRefresh(i)
        \/ GoWriteRoster(i)
        \/ GoBody(i)
        \/ GoUnlock(i)
        \/ GoReadRefresh(i)
        \/ GoEnsureReturn(i)

InitLock ==
    /\ \E p \in NewPool(<<AcctA, AcctB>>, FALSE, 0) :
          pool = [i \in Inst |-> IF i = Primary THEN p ELSE EmptyPool]
    /\ cfg = [i \in Inst |-> [Refresh |-> FALSE, MaxActiveAccounts |-> 0,
                              ClaudeModelMapping |-> DefaultMapping]]
    /\ mgr = [i \in Inst |-> [version |-> 0, cursor |-> 0]]
    /\ sync = [i \in Inst |-> NewSync]
    /\ srv = EmptySrv
    /\ req = IdleReq
    /\ held = NoneHeld
    /\ reloaded = FALSE
    /\ last = NoOp
    /\ pow = IdlePow
    /\ svc = [mu |-> 0, g |-> [i \in Goroutines |-> Resting]]

SpecLock == InitLock /\ [][NextLock]_vars

\* The goroutine is at a read or write of refresh, accounts or the counter
Accessing(i) == svc.g[i].pc \in {"refresh", "roster", "body", "read"}

\* C27: every pool method holds the mutex when it reads or writes the roster,
\* the counter or the runtime fields, so no goroutine reads one of them while
\* another is inside Reload or UpdateRuntime
C27_AccessUnderMutex ==
    \A i, j \in Goroutines :
        (i # j /\ Accessing(i) /\ Writing(j)) => svc.mu = i

\* What holds instead: the methods that lock exclude each other, and the one
\* access made without the mutex is EnsureToken's read of refresh
LockingMethodsExclude ==
    /\ \A i, j \in Goroutines : (Inside(i) /\ Inside(j)) => i = j
    /\ \A i \in Goroutines : Inside(i) <=> svc.mu = i
    /\ \A i \in Goroutines :
          (Accessing(i) /\ svc.mu # i) => svc.g[i].op = "EnsureToken"

-----------------------------------------------------------------------------
(* What OpenAIStream writes to the client (services/openai_stream.go).     *)
(* Every `data:` line is an event record; an absent JSON member is << >>,   *)
(* a present one <<value>>.                                                 *)

Absent == << >>
Line(kind) == [kind |-> kind, role |-> Absent, content |-> Absent,
               reasoning_content |-> Absent, finish_reason |-> Absent,
               usage |-> FALSE, error |-> Absent]
DeltaChunk(delta) == [Line("chunk") EXCEPT !.role = delta.role, !.content = delta.content,
                          !.reasoning_content = delta.reasoning_content]
FinishChunk == [Line("chunk") EXCEPT !.finish_reason = <<"stop">>, !.usage = TRUE]
ErrorLine(msg) == [Line("error") EXCEPT !.error = <<msg>>]
DoneLine == Line("[DONE]")

EmptyDelta == [role |-> Absent, content |-> Absent, reasoning_content |-> Absent]
Present(s) == IF s = << >> THEN Absent ELSE <<s>>

\* What one upstream stream amounts to: err, whether a data line arrived,
\* the segments parseChunk gave up to the end, and whether FINISHED arrived
WireStreams ==
    {[err |-> TRUE, data |-> FALSE, segs |-> << >>, finished |-> FALSE],
     [err |-> FALSE, data |-> FALSE, segs |-> << >>, finished |-> FALSE]}
    \cup [err : {FALSE}, data : {TRUE}, segs : SegStreams, finished : BOOLEAN]

\* CompletionJSONRequest and extractCompletionFromJSON
WireJSON ==
    {[err |-> TRUE, ok |-> FALSE, text |-> << >>, thinking |-> << >>],
     [err |-> FALSE, ok |-> FALSE, text |-> << >>, thinking |-> << >>]}
    \cup [err : {FALSE}, ok : {TRUE}, text : {<< >>, <<"answer ">>},
          thinking : {<< >>, <<"hm">>}]

NoneWritten == [finalText |-> << >>, finalThinking |-> << >>, firstChunk |-> FALSE,
                w |-> << >>]

RECURSIVE openAIStreamSegmentsMut(_, _, _, _, _)
openAIStreamSegmentsMut(segs, k, searchEnabled, thinkingEnabled, a) ==
    IF k > Len(segs) THEN a
    ELSE LET v == segs[k].Text
             thinking == segs[k].Type = "thinking"
             delta == [role |-> <<"assistant">>,
                       content |-> IF thinking THEN Absent ELSE <<v>>,
                       reasoning_content |->
                           IF thinking /\ thinkingEnabled THEN <<v>> ELSE Absent]
         IN  IF searchEnabled /\ HasPrefix(v, Citation)
             THEN openAIStreamSegmentsMut(segs, k + 1, searchEnabled, thinkingEnabled, a)
             ELSE openAIStreamSegmentsMut(segs, k + 1, searchEnabled, thinkingEnabled,
                      [finalText |-> IF thinking THEN a.finalText ELSE a.finalText \o v,
                       finalThinking |-> IF thinking /\ thinkingEnabled
                                         THEN a.finalThinking \o v ELSE a.finalThinking,
                       firstChunk |-> TRUE,
                       w |-> Append(a.w, DeltaChunk(delta))])

\* The loop over the segments of the stream, with what it writes
RECURSIVE openAIStreamSegments(_, _, _, _, _)
openAIStreamSegments(segs, k, searchEnabled, thinkingEnabled, a) ==
    IF k > Len(segs) THEN a
    ELSE LET v == segs[k].Text
             thinking == segs[k].Type = "thinking"
             delta == [role |-> IF ~a.firstChunk THEN <<"assistant">> ELSE Absent,
                       content |-> IF thinking THEN Absent ELSE <<v>>,
                       reasoning_content |->
                           IF thinking /\ thinkingEnabled THEN <<v>> ELSE Absent]
         IN  IF searchEnabled /\ HasPrefix(v, Citation)
             THEN openAIStreamSegments(segs, k + 1, searchEnabled, thinkingEnabled, a)
             ELSE openAIStreamSegments(segs, k + 1, searchEnabled, thinkingEnabled,
                      [finalText |-> IF thinking THEN a.finalText ELSE a.finalText \o v,
                       finalThinking |-> IF thinking /\ thinkingEnabled
                                         THEN a.finalThinking \o v ELSE a.finalThinking,
                       firstChunk |-> TRUE,
                       w |-> IF delta # EmptyDelta
                             THEN Append(a.w, DeltaChunk(delta)) ELSE a.w])

\* How a turn ends: w is what it wrote, json whether it made the
\* CompletionJSONRequest, pre what it had written before making it
Again(w, json, pre) == [next |-> "retry", w |-> w, json |-> json, pre |-> pre]
Finally(w, json, pre) == [next |-> "return", w |-> w, json |-> json, pre |-> pre]

retryNowMut(s, a, attempt) == s.finished /\ attempt < maxRetries

\* retryNow of OpenAIStream, set in the callback when FINISHED arrives
retryNow(s, a, attempt) ==
    /\ s.finished /\ ~a.firstChunk /\ a.finalText = << >>
    /\ a.finalThinking = << >> /\ attempt < maxRetries

\* One turn of OpenAIStream's loop: retry, or what the turn writes before
\* it returns
OpenAIStreamAttempt(attempt, thinkingEnabled, searchEnabled, s, j) ==
    IF s.err
    THEN IF attempt < maxRetries THEN Again(<< >>, FALSE, << >>)
         ELSE Finally(<<ErrorLine("Upstream connection failed after retries"), DoneLine>>,
                      FALSE, << >>)
    ELSE LET a == openAIStreamSegments(s.segs, 1, searchEnabled, thinkingEnabled,
                                       NoneWritten)
             jsonOK == ~s.data /\ ~j.err /\ j.ok
             finalText == IF jsonOK THEN j.text ELSE a.finalText
             finalThinking == IF jsonOK
                              THEN (IF thinkingEnabled THEN j.thinking ELSE a.finalThinking)
                              ELSE a.finalThinking
             jdelta == [role |-> <<"assistant">>, content |-> Present(finalText),
                        reasoning_content |-> Present(finalThinking)]
             w == IF jsonOK /\ ~a.firstChunk
                  THEN Append(a.w, DeltaChunk(jdelta)) ELSE a.w
             firstChunk == a.firstChunk \/ jsonOK
             empty == ~firstChunk /\ finalText = << >> /\ finalThinking = << >>
             invalid == w \o <<ErrorLine("Invalid upstream stream"), DoneLine>>
         IN  IF retryNow(s, a, attempt) THEN Again(a.w, FALSE, a.w)
             ELSE IF ~s.data /\ empty
                  THEN IF attempt < maxRetries THEN Again(w, TRUE, a.w)
                       ELSE Finally(invalid, TRUE, a.w)
                  ELSE IF empty /\ attempt < maxRetries THEN Again(w, ~s.data, a.w)
                  ELSE IF ~s.data /\ ~firstChunk THEN Finally(invalid, TRUE, a.w)
                  ELSE Finally(w \o <<FinishChunk, DoneLine>>, ~s.data, a.w)

WireRest == <<last, pool, cfg, mgr, sync, srv, req, held, reloaded, pow>>

\* One turn of the loop against one upstream answer.  svc.w is everything
\* written to the client so far, svc.json whether the turn that returned
\* made the CompletionJSONRequest, svc.late whether a completion request
\* (StreamRequest or CompletionJSONRequest) was made after something had
\* been written
WireTurn ==
    /\ svc.pc = "turn"
    /\ \E s \in WireStreams, j \in WireJSON :
          \E r \in {OpenAIStreamAttempt(svc.attempt, svc.thinkingEnabled,
                                       svc.searchEnabled, s, j)} :
             svc' = [svc EXCEPT
                       !.w = @ \o r.w,
                       !.json = r.json /\ r.next = "return",
                       !.late = @ \/ svc.w # << >>
                                  \/ (r.json /\ svc.w \o r.pre # << >>),
                       !.attempt = IF r.next = "retry" THEN @ + 1 ELSE @,
                       !.pc = IF r.next = "retry" THEN @ ELSE "written"]
    /\ UNCHANGED WireRest

NextWire == WireTurn

\* The handler has sent the status line and the headers
InitWire ==
    /\ pool = [i \in Inst |-> EmptyPool]
    /\ cfg = [i \in Inst |-> [Refresh |-> FALSE, MaxActiveAccounts |-> 0,
                              ClaudeModelMapping |-> DefaultMapping]]
    /\ mgr = [i \in Inst |-> [version |-> 0, cursor |-> 0]]
    /\ sync = [i \in Inst |-> NewSync]
    /\ srv = EmptySrv
    /\ req = IdleReq
    /\ held = NoneHeld
    /\ reloaded = FALSE
    /\ pow = IdlePow
    /\ \E te \in BOOLEAN, se \in BOOLEAN :
           svc = [pc |-> "turn", attempt |-> 0, thinkingEnabled |-> te,
                  searchEnabled |-> se, w |-> << >>, json |-> FALSE, late |-> FALSE]
    /\ last = NoOp

SpecWire == InitWire /\ [][NextWire]_vars

Responded == svc.pc = "written"
Delivers(w) ==
    \E k \in DOMAIN w : w[k].content # Absent \/ w[k].reasoning_content # Absent
CountLines(w, line) == Cardinality({k \in DOMAIN w : w[k] = line})

\* C28: an OpenAI streaming response that delivers content starts with a
\* delta chunk that carries role "assistant", no later chunk carries a role,
\* reasoning_content appears only for a thinking model, and the response ends
\* with exactly one chunk with finish_reason "stop" and a usage block followed
\* by exactly one [DONE], the last line written
C28_StreamShape ==
    (Responded /\ Delivers(svc.w)) =>
        LET w == svc.w
            n == Len(w)
        IN  /\ n >= 3
            /\ w[1].kind = "chunk" /\ w[1].role = <<"assistant">>
            /\ w[1].finish_reason = Absent
            /\ \A k \in 2..n : w[k].role = Absent
            /\ \A k \in 1..n : w[k].reasoning_content # Absent => svc.thinkingEnabled
            /\ \A k \in 1..n : w[k].kind # "error"
            /\ w[n - 1] = FinishChunk /\ w[n] = DoneLine
            /\ CountLines(w, FinishChunk) = 1 /\ CountLines(w, DoneLine) = 1
            /\ \A k \in 1..(n - 2) : w[k].finish_reason = Absent /\ ~w[k].usage

\* After two retries a thinking model has streamed reasoning and then text
C28_Witness ==
    /\ Responded /\ svc.attempt = 2 /\ svc.thinkingEnabled
    /\ Len(svc.w) = 4
    /\ svc.w[1].reasoning_content # Absent /\ svc.w[2].content # Absent

-----------------------------------------------------------------------------
(* What ClaudeStream writes once an attempt has text or thinking            *)
(* (services/claude_stream.go, from message_start on)                       *)

\* index is -1 in an event that has none
ClaudeEvent(type) == [type |-> type, index |-> -1, block |-> "", delta |-> "",
                      stop_reason |-> ""]
BlockStart(idx, block) ==
    [ClaudeEvent("content_block_start") EXCEPT !.index = idx, !.block = block]
BlockDelta(idx, delta) ==
    [ClaudeEvent("content_block_delta") EXCEPT !.index = idx, !.delta = delta]
BlockStop(idx) == [ClaudeEvent("content_block_stop") EXCEPT !.index = idx]
MessageDelta(reason) == [ClaudeEvent("message_delta") EXCEPT !.stop_reason = reason]

\* The loop over the detected calls: one content_block_start and one
\* content_block_stop for each
RECURSIVE toolUseBlocks(_, _, _)
toolUseBlocks(detected, i, contentIndex) ==
    IF i > Len(detected) THEN << >>
    ELSE <<BlockStart(contentIndex + i - 1, "tool_use"), BlockStop(contentIndex + i - 1)>>
             \o toolUseBlocks(detected, i + 1, contentIndex)

ClaudeStreamEvents(finalText, finalThinking, toolsRequested) ==
    LET detected == DetectToolCalls(finalText, toolsRequested)
        thinkingBlock ==
            IF finalThinking # << >>
            THEN <<BlockStart(0, "thinking"), BlockDelta(0, "thinking_delta"), BlockStop(0)>>
            ELSE << >>
        contentIndex == IF finalThinking # << >> THEN 1 ELSE 0
        textBlock ==
            IF finalText # << >>
            THEN <<BlockStart(contentIndex, "text"), BlockDelta(contentIndex, "text_delta"),
                   BlockStop(contentIndex)>>
            ELSE << >>
    IN  <<ClaudeEvent("message_start")>> \o thinkingBlock
            \o (IF Len(detected) > 0
                THEN toolUseBlocks(detected, 1, contentIndex)
                         \o <<MessageDelta("tool_use")>>
                ELSE textBlock \o <<MessageDelta("end_turn")>>)
            \o <<ClaudeEvent("message_stop")>>

\* The texts an attempt can end with: nothing, prose, and serialized calls
FinalTexts ==
    {<< >>, <<Punct("x")>>}
        \cup {TextOf(calls, form) : calls \in CallLists, form \in {"compact", "padded", "nosuffix"}}
FinalThinkings == {<< >>, <<"hm">>}

EmitStep ==
    /\ svc.pc = "final"
    /\ svc' = [pc |-> "emitted", text |-> svc.text, thinking |-> svc.thinking,
               tools |-> svc.tools,
               detected |-> DetectToolCalls(svc.text, svc.tools),
               out |-> ClaudeStreamEvents(svc.text, svc.thinking, svc.tools)]
    /\ UNCHANGED <<last, pool, cfg, mgr, sync, srv, req, held, reloaded, pow>>

NextEmit == EmitStep

InitEmit ==
    /\ pool = [i \in Inst |-> EmptyPool]
    /\ cfg = [i \in Inst |-> [Refresh |-> FALSE, MaxActiveAccounts |-> 0,
                              ClaudeModelMapping |-> DefaultMapping]]
    /\ mgr = [i \in Inst |-> [version |-> 0, cursor |-> 0]]
    /\ sync = [i \in Inst |-> NewSync]
    /\ srv = EmptySrv
    /\ req = IdleReq
    /\ held = NoneHeld
    /\ reloaded = FALSE
    /\ pow = IdlePow
    /\ \E text \in FinalTexts, thinking \in FinalThinkings, tools \in ToolLists :
           svc = [pc |-> "final", text |-> text, thinking |-> thinking, tools |-> tools]
    /\ last = NoOp

SpecEmit == InitEmit /\ [][NextEmit]_vars

Emitted == svc.pc = "emitted"
HasContent == svc.text # << >> \/ svc.thinking # << >>

\* The events between message_start and message_delta
Blocks(out) == SubSeq(out, 2, Len(out) - 2)
Starts(out) == SelectSeq(out, LAMBDA e : e.type = "content_block_start")

\* Event k of the blocks opens a block that is closed, with the same index,
\* before anything else starts
ClosedAt(b, k, width) ==
    /\ k + width - 1 <= Len(b)
    /\ b[k + width - 1] = BlockStop(b[k].index)
    /\ \A m \in (k + 1)..(k + width - 2) :
           b[m].type = "content_block_delta" /\ b[m].index = b[k].index

\* C29: a Claude streaming response with content is message_start, then a
\* thinking block (start, thinking_delta, stop) only if thinking is not
\* empty, then one block of three events per detected tool call or else one
\* text block of three events, then message_delta with stop_reason tool_use
\* exactly when a call was detected (end_turn otherwise), then message_stop;
\* the block indices count up from 0 and every block is closed before the
\* next one starts
C29_ClaudeEventSequence ==
    (Emitted /\ HasContent) =>
        LET out == svc.out
            b == Blocks(out)
            nThinking == IF svc.thinking # << >> THEN 1 ELSE 0
            nRest == IF svc.detected # << >> THEN Len(svc.detected) ELSE 1
        IN  /\ out[1] = ClaudeEvent("message_start")
            /\ out[Len(out)] = ClaudeEvent("message_stop")
            /\ out[Len(out) - 1] = MessageDelta(IF svc.detected # << >>
                                                THEN "tool_use" ELSE "end_turn")
            /\ Len(b) = 3 * (nThinking + nRest)
            /\ \A n \in 0..(nThinking + nRest - 1) :
                  /\ b[3 * n + 1].type = "content_block_start"
                  /\ b[3 * n + 1].index = n
                  /\ b[3 * n + 1].block =
                        IF n < nThinking THEN "thinking"
                        ELSE IF svc.detected # << >> THEN "tool_use" ELSE "text"
                  /\ ClosedAt(b, 3 * n + 1, 3)
            /\ nThinking = 1 => b[2].delta = "thinking_delta"

\* The part of C29 that the code keeps: the frame, the indices and the
\* closing of blocks; a tool_use block is a start and a stop with no delta,
\* and there is a text block only for a text that is not empty
ClaudeEventFrame ==
    Emitted =>
        LET out == svc.out
            b == Blocks(out)
            s == Starts(out)
        IN  /\ out[1] = ClaudeEvent("message_start")
            /\ out[Len(out)] = ClaudeEvent("message_stop")
            /\ out[Len(out) - 1] = MessageDelta(IF svc.detected # << >>
                                                THEN "tool_use" ELSE "end_turn")
            /\ \A n \in DOMAIN s : s[n].index = n - 1
            /\ \A k \in DOMAIN b :
                  b[k].type = "content_block_start" =>
                      ClosedAt(b, k, IF b[k].block = "tool_use" THEN 2 ELSE 3)
            /\ Len(b) = 3 * Cardinality({n \in DOMAIN s : s[n].block # "tool_use"})
                          + 2 * Cardinality({n \in DOMAIN s : s[n].block = "tool_use"})
            /\ [n \in DOMAIN s |-> s[n].block]
                  = (IF svc.thinking # << >> THEN <<"thinking">> ELSE << >>)
                      \o (IF svc.detected # << >>
                          THEN [n \in DOMAIN svc.detected |-> "tool_use"]
                          ELSE IF svc.text # << >> THEN <<"text">> ELSE << >>)

-----------------------------------------------------------------------------
(* The PoW cache over time: the clock moves on and every key is read again *)
(* and again (GetPoW consults the cache on every request)                  *)

\* cache.Set(key, enc, expireAt) at the end of GetPoW
ExpireSet(key, val, expireAt) ==
    /\ pow' = [pow EXCEPT !.entries = CacheSet(@, key, val, expireAt, pow.now)]
    /\ last' = [op |-> "Set", key |-> key]
    /\ UNCHANGED Others

\* cache.Get(key) in GetPoW; last keeps what the entry was
ExpireGet(key) ==
    /\ \E r \in {CacheGet(pow.entries, key, pow.now)} :
          /\ pow' = [pow EXCEPT !.entries = r.entries]
          /\ last' = [op |-> "Get", key |-> key, ok |-> r.ok,
                      was |-> IF key \in DOMAIN pow.entries
                              THEN <<pow.entries[key].ExpireAt>> ELSE << >>]
    /\ UNCHANGED Others

NextExpire ==
    \/ \E key \in CacheKeys, val \in CacheVals, expireAt \in ExpireValues :
           ExpireSet(key, val, expireAt)
    \/ \E key \in CacheKeys : ExpireGet(key)
    \/ PowAdvance

SpecExpire ==
    /\ InitQuiet
    /\ [][NextExpire]_vars
    /\ WF_vars(PowAdvance)
    /\ \A key \in CacheKeys : WF_vars(ExpireGet(key))

Cached(key) == key \in DOMAIN pow.entries
\* Set stores expire_at - 1 and the clock is positive, so the stored expiry
\* is below 0 exactly for expire_at <= 0 and is never 0
Immortal(key) == Cached(key) /\ pow.entries[key].ExpireAt <= 0

\* C30: whatever expire_at was passed to Set, there is a time after which
\* Get for the key misses: every entry leaves the cache
C30_EntriesSelfExpire ==
    \A key \in CacheKeys : Cached(key) ~> ~Cached(key)

\* C30, as the code has it: an entry set with expire_at > 0 leaves the cache
\* unless a Set with expire_at <= 0 replaces it; an entry set with
\* expire_at <= 0 stays until a Set replaces it, and Get returns it for ever
C30_PositiveEntriesExpire ==
    /\ \A key \in CacheKeys :
          (Cached(key) /\ ~Immortal(key)) ~> (~Cached(key) \/ Immortal(key))
    /\ [][\A key \in CacheKeys :
             Immortal(key) => /\ Cached(key)'
                              /\ CacheGet(pow.entries, key, pow.now).ok]_vars

\* The entry with the latest expiry the model sets has been read at its
\* time and is gone
C30_Witness ==
    /\ last.op = "Get" /\ ~last.ok
    /\ last.was = <<MaxTime>>
    /\ ~Cached(last.key)
    /\ pow.now = MaxTime


-----------------------------------------------------------------------------
(* SpecRun: main starts one gateway with cloud sync enabled: InitialSync,   *)
(* then the ticks of Run, every client call answered by an HTTP exchange of *)
(* any outcome; svc holds AppState.syncStatus and the calls of the          *)
(* operation in progress                                                    *)

\* One exchange of Client.do: sent is FALSE when httpClient.Do failed
Exchange(sent, code) == [sent |-> sent, StatusCode |-> code]

Exchanges == {Exchange(FALSE, 0)}
             \cup {Exchange(TRUE, code) : code \in {200, 401, 404, 409, 500}}

ConflictText == "cloudsync conflict"

\* Client.do: the text of the error it returns, "" for nil
do(x) ==
    IF ~x.sent THEN "transport error"
    ELSE IF x.StatusCode >= 200 /\ x.StatusCode < 300 THEN ""
    ELSE IF x.StatusCode = 401 THEN "cloudsync unauthorized"
    ELSE IF x.StatusCode = 404 THEN "cloudsync not found"
    ELSE IF x.StatusCode = 409 THEN ConflictText
    ELSE "cloudsync status"

asConflictMut(e) == e # ""

\* errors.As(err, &ce) in upsertWithConflictRetry
asConflict(e) == e = ConflictText

\* How upsertWithConflictRetry sees the answer to UpsertItem
upsertKind(e) == IF e = "" THEN "ok" ELSE IF asConflict(e) THEN "conflict" ELSE e

\* The error applyItems returns when a metadata cannot be decoded
DecodeText == "decode error"

NewStatus == [Connected |-> FALSE, LastError |-> "", LastVersion |-> 0, LastCursor |-> 0]

MarkSyncSuccess(st, version, cursor) ==
    [Connected |-> TRUE, LastError |-> "", LastVersion |-> version, LastCursor |-> cursor]

MarkSyncErrorMut(st, err) == [st EXCEPT !.LastError = err]

MarkSyncError(st, err) == [st EXCEPT !.Connected = FALSE, !.LastError = err]

\* The cursors a handshake answer may carry (Session.Cursor is an int64)
HandshakeCursors == {-1, 0, 7}

\* What the server of SpecRun answers with
RunVersions == {0, 7}

RunBatches ==
    { <<>>,
      <<Item(accountsPath, 7, FALSE, AccountsMeta(<<AcctB>>))>>,
      <<Item(accountsPath, 8, FALSE, [AccountsMeta(<<AcctA>>) EXCEPT !.enc = "string"])>> }

NewRun == [status |-> NewStatus, op |-> "none", x |-> Exchange(FALSE, 0),
           err |-> "", ended |-> FALSE]

\* The end of InitialSync (manager.go:44-62) and of a tick of Run
\* (manager.go:74-78): e is the error of the call just answered; the
\* operation has returned when the manager is idle again
Marked(e) ==
    LET ended == sync'[Primary].pc = "idle"
        text == IF e # "" THEN e
                ELSE IF last'.op = "ListItems" THEN DecodeText ELSE ""
    IN [svc EXCEPT !.status = IF ~ended THEN @
                              ELSE IF text # "" THEN MarkSyncError(@, text)
                              ELSE MarkSyncSuccess(@, mgr'[Primary].version,
                                                   mgr'[Primary].cursor),
                   !.err = IF ended THEN text ELSE "",
                   !.ended = ended]

RunHandshake ==
    /\ \E x \in Exchanges, c \in HandshakeCursors :
          /\ Handshake(Primary, [err |-> do(x) # "", Cursor |-> c])
          /\ svc' = [Marked(do(x)) EXCEPT !.op = "InitialSync", !.x = x]
    /\ UNCHANGED srv

RunTick ==
    /\ Tick(Primary)
    /\ svc' = [svc EXCEPT !.op = "SyncOnce", !.err = "", !.ended = FALSE]
    /\ UNCHANGED srv

RunListItems ==
    /\ \E x \in Exchanges, b \in RunBatches, c \in RunVersions, v \in RunVersions :
          /\ ListItemsStep(Primary, [err |-> do(x) # "", Items |-> b,
                                     NextCursor |-> c, LatestVersion |-> v])
          /\ svc' = [Marked(do(x)) EXCEPT !.x = x]
    /\ UNCHANGED srv

RunDelta ==
    /\ \E x \in Exchanges, c \in RunVersions :
          /\ DeltaStep(Primary, [err |-> do(x) # "", NextCursor |-> c])
          /\ svc' = [Marked(do(x)) EXCEPT !.x = x]
    /\ UNCHANGED srv

RunUpsert ==
    /\ \E x \in Exchanges, v \in RunVersions :
          /\ UpsertStep(Primary, [kind |-> upsertKind(do(x)), Version |-> v,
                                  ServerVersion |-> v])
          /\ svc' = [Marked(do(x)) EXCEPT !.x = x]
    /\ UNCHANGED srv

RunResolve ==
    /\ \E x \in Exchanges, v \in RunVersions :
          /\ ResolveStep(Primary, [kind |-> IF do(x) = "" THEN "ok" ELSE do(x),
                                   Version |-> v, ServerVersion |-> 0])
          /\ svc' = [Marked(do(x)) EXCEPT !.x = x]
    /\ UNCHANGED srv

NextRun ==
    \/ RunHandshake
    \/ RunTick
    \/ RunListItems
    \/ RunDelta
    \/ RunUpsert
    \/ RunResolve

InitRun ==
    /\ \E p \in NewPool(<<AcctA, AcctB>>, FALSE, 0) :
          pool = [i \in Inst |-> IF i = Primary THEN p ELSE EmptyPool]
    /\ cfg = [i \in Inst |-> [Refresh |-> FALSE, MaxActiveAccounts |-> 0,
                              ClaudeModelMapping |-> DefaultMapping]]
    /\ mgr = [i \in Inst |-> [version |-> 0, cursor |-> 0]]
    /\ sync = [i \in Inst |-> NewSync]
    /\ srv = EmptySrv
    /\ req = IdleReq
    /\ held = NoneHeld
    /\ reloaded = FALSE
    /\ pow = IdlePow
    /\ svc = NewRun
    /\ last = NoOp

SpecRun == InitRun /\ [][NextRun]_vars

\* C31: no operation of the sync manager, InitialSync included, lowers its
\* cursor or its version, whatever cursor the handshake answer carries.
C31_CursorMonotonicEverywhere ==
    [][/\ mgr'[Primary].cursor >= mgr[Primary].cursor
       /\ mgr'[Primary].version >= mgr[Primary].version]_vars

\* What the code keeps: every step other than the Handshake of InitialSync
\* leaves cursor and version at least what they were, and the Handshake
\* sets the cursor to exactly what the answer carried.
CursorMonotonicAfterHandshake ==
    [][/\ mgr'[Primary].version >= mgr[Primary].version
       /\ last'.op # "Handshake" => mgr'[Primary].cursor >= mgr[Primary].cursor
       /\ (last'.op = "Handshake" /\ do(svc'.x) = "")
              => mgr'[Primary].cursor \in HandshakeCursors]_vars

\* InitialSync, called on the new manager (cursor 0), took from the handshake
\* a cursor below that
C31_Lowered ==
    /\ svc.op = "InitialSync"
    /\ last.op = "Handshake"
    /\ mgr[Primary].cursor < 0


\* The exchange was answered with an error other than the 409 conflict
NonConflict(x) == do(x) # "" /\ ~(x.sent /\ x.StatusCode = 409)

\* C32: when UpsertItem fails with anything other than a conflict (401, 404,
\* another non-2xx status, a transport error), upsertWithConflictRetry returns
\* that error having made no ListItems, Delta or ResolveConflict call, version
\* and cursor are what they were, no further upsert is sent by this operation
\* (the manager is idle again), and the sync status records the failure with
\* the error's text.
C32_OnlyConflictRecovers ==
    (last.op = "Upsert" /\ NonConflict(svc.x)) =>
        /\ last.ret.how = "error"
        /\ Len(last.ret.calls) = 1
        /\ last.ret.calls[1].op = "Upsert"
        /\ last.ret.ce = <<>>
        /\ mgr[Primary] = last.prev
        /\ sync[Primary].pc = "idle"
        /\ svc.ended
        /\ ~svc.status.Connected
        /\ svc.status.LastError = do(svc.x)

\* C32 witness: in a tick of Run the accounts upsert was answered 401; the
\* manager is idle with the config upsert not sent and the status shows
\* the error.
C32_Witness ==
    /\ svc.op = "SyncOnce"
    /\ last.op = "Upsert"
    /\ svc.x = Exchange(TRUE, 401)
    /\ last.ret.calls[1].path = accountsPath
    /\ sync[Primary].pc = "idle"
    /\ svc.status.LastError = "cloudsync unauthorized"
    /\ mgr[Primary].version > 0


\* C33: InitialSync starts with Handshake, a pull starts only after a
\* successful Handshake or at a tick, a push only after a successful pull, and
\* a failing call ends the operation; when InitialSync or a tick has ended the
\* status shows that operation: on failure connected = false and last_error
\* is the error's text, on success connected = true, last_error is empty and
\* last_version / last_cursor are the manager's version and cursor; a failure
\* leaves the pool and the runtime configuration, which the chat handlers
\* read, as they were.
C33_StatusReflectsLastOperation ==
    /\ [](svc.ended =>
            /\ sync[Primary].pc = "idle"
            /\ IF svc.err # ""
               THEN /\ ~svc.status.Connected
                    /\ svc.status.LastError = svc.err
               ELSE /\ svc.status.Connected
                    /\ svc.status.LastError = ""
                    /\ svc.status.LastVersion = mgr[Primary].version
                    /\ svc.status.LastCursor = mgr[Primary].cursor
                    /\ last.op \in {"Upsert", "Resolve"})
    /\ [][/\ sync[Primary].pc = "new" => last'.op = "Handshake"
          /\ last'.op = "Handshake" =>
                /\ svc'.op = "InitialSync"
                /\ sync'[Primary].pc = IF do(svc'.x) = "" THEN "list" ELSE "idle"
          /\ (sync'[Primary].pc = "list" /\ sync'[Primary].ctx = "tick")
                => last'.op \in {"Handshake", "Tick"}
          /\ (sync'[Primary].pc = "upsert" /\ sync[Primary].pc # "upsert")
                => (last'.op = "Delta" /\ last'.ok) \/ last'.op = "Resolve"
          /\ (svc'.ended /\ svc'.err # "")
                => /\ pool' = pool
                   /\ cfg' = cfg
                   /\ sync'[Primary].pc = "idle"
          /\ (last'.op # "Tick" /\ do(svc'.x) # "" /\ ~asConflict(do(svc'.x)))
                => svc'.ended /\ svc'.err = do(svc'.x)]_vars

\* C33 witness: a tick failed after InitialSync had succeeded; the status
\* keeps the version and cursor of the success and shows the tick's error.
C33_Witness ==
    /\ svc.op = "SyncOnce"
    /\ svc.ended /\ svc.err = "cloudsync status"
    /\ last.op = "Delta"
    /\ ~svc.status.Connected
    /\ svc.status.LastVersion = 7
    /\ svc.status.LastCursor = 7
    /\ mgr[Primary].version = 7


\* C34: applyItems is all-or-nothing: when it returns an error the manager's
\* version and cursor, the runtime configuration and the pool are what they
\* were before the call.
C34_ApplyItemsAllOrNothing ==
    (last.op = "applyItems" /\ last.err) =>
        /\ mgr[Primary] = last.before.m
        /\ cfg[Primary] = last.before.cfg
        /\ pool[Primary] = last.before.pool

\* What the code keeps: a failed applyItems leaves the runtime configuration,
\* the pool and the cursor as they were and does not lower the version; the
\* version is raised to the highest version among the non-deleted items that
\* precede the item that failed to decode.
ApplyErrorKeepsRuntime ==
    (last.op = "applyItems" /\ last.err) =>
        /\ cfg[Primary] = last.before.cfg
        /\ pool[Primary] = last.before.pool
        /\ mgr[Primary].cursor = last.before.m.cursor
        /\ mgr[Primary].version >= last.before.m.version
        /\ mgr[Primary].version \in
              {last.before.m.version}
              \cup {last.items[k].Version : k \in 1..(Len(last.items) - 1)}

\* A failed batch whose first item, a config item that was not applied, is
\* now at or below the manager's version, so the next pull does not ask for it
C34_Skipped ==
    /\ last.op = "applyItems" /\ last.err
    /\ Len(last.items) = 2
    /\ last.items[1].Path = configPath /\ ~last.items[1].Deleted
    /\ last.items[1].Version > last.before.m.version
    /\ mgr[Primary].version >= last.items[1].Version
    /\ cfg[Primary] = last.before.cfg


-----------------------------------------------------------------------------
(* SpecCloud: one gateway, started with the roster of its configuration    *)
(* file, syncing against the cloud-sync server with some pull limit; the   *)
(* server is empty or holds what another client wrote before the start.    *)
(* svc holds the manager's cfg.Limit and the history of the run.           *)

StartRoster == <<AcctA, AcctB>>

\* A configuration another client wrote: refresh on, a custom mapping
OtherConfig == [Refresh |-> TRUE, MaxActiveAccounts |-> 0,
                ClaudeModelMapping |-> CustomMapping]

\* The server after another client upserted (without base_version) an item of
\* an unrelated path and then the config item, or the accounts item
Seed(kind) ==
    IF kind = "config"
    THEN SrvUpsert(SrvUpsert(EmptySrv, otherPath, NullMeta, <<>>).srv,
                   configPath, ConfigMeta(OtherConfig), <<>>).srv
    ELSE IF kind = "accounts"
    THEN SrvUpsert(EmptySrv, accountsPath, AccountsMeta(<<AcctC>>), <<>>).srv
    ELSE EmptySrv

Seeds == {"empty", "config", "accounts"}

\* cloud_sync.limit of the gateway's configuration
CloudLimits == {1, 2, SyncLimit}

Recognized == {accountsPath, configPath}

\* The versions of the accounts and config items that applyItems applies
AppliedVersions(items) ==
    {items[k].Version : k \in {j \in 1..Len(items) :
                                  items[j].Path \in Recognized /\ ~items[j].Deleted}}

\* The history kept beside a step: the versions applied by pulls, the
\* versions of the gateway's own writes, whether a sync has succeeded
Noted(items) ==
    [svc EXCEPT
       !.applied = IF last'.op = "ListItems" /\ sync'[Primary].pc = "delta"
                   THEN @ \cup AppliedVersions(items) ELSE @,
       !.own = IF last'.op \in {"Upsert", "Resolve"} /\ last'.kind = "ok"
               THEN @ \cup {last'.v} ELSE @,
       !.synced = @ \/ (/\ last'.op \in {"Upsert", "Resolve"}
                        /\ last'.kind = "ok"
                        /\ sync'[Primary].pc = "idle")]

CloudHandshake ==
    /\ \E r \in {SrvHandshake(mgr[Primary].cursor)} : Handshake(Primary, r)
    /\ svc' = Noted(<<>>)
    /\ UNCHANGED srv

CloudTick ==
    /\ Tick(Primary)
    /\ UNCHANGED <<srv, svc>>

CloudListItems ==
    /\ sync[Primary].pc = "list"
    /\ \E r \in {SrvListItems(srv, sync[Primary].since, svc.Limit,
                              sync[Primary].cursor)} :
          /\ ListItemsStep(Primary, r)
          /\ svc' = Noted(r.Items)
    /\ UNCHANGED srv

CloudDelta ==
    /\ sync[Primary].pc = "delta"
    /\ \E r \in {SrvDelta(srv, sync[Primary].since, svc.Limit, sync[Primary].cursor)} :
          DeltaStep(Primary, r)
    /\ svc' = Noted(<<>>)
    /\ UNCHANGED srv

CloudUpsert ==
    /\ sync[Primary].pc = "upsert"
    /\ \E r \in {SrvUpsert(srv, sync[Primary].which, pushMeta(sync[Primary]),
                           <<mgr[Primary].version>>)} :
          /\ r.kind = "ok" => srv.latest < MaxVersion
          /\ UpsertStep(Primary, r)
          /\ srv' = r.srv
    /\ svc' = Noted(<<>>)

CloudResolve ==
    /\ sync[Primary].pc = "resolve"
    /\ \E r \in {SrvResolveConflict(srv, sync[Primary].which, pushMeta(sync[Primary]),
                                    resolveBase(sync[Primary], mgr[Primary]))} :
          /\ r.kind = "ok" => srv.latest < MaxVersion
          /\ ResolveStep(Primary, r)
          /\ srv' = r.srv
    /\ svc' = Noted(<<>>)

NextCloud ==
    \/ CloudHandshake
    \/ CloudTick
    \/ CloudListItems
    \/ CloudDelta
    \/ CloudUpsert
    \/ CloudResolve

InitCloud ==
    /\ \E mx \in MaxAccountsValues :
          /\ \E p \in NewPool(StartRoster, FALSE, mx) :
                pool = [i \in Inst |-> IF i = Primary THEN p ELSE EmptyPool]
          /\ cfg = [i \in Inst |-> [Refresh |-> FALSE, MaxActiveAccounts |-> mx,
                                    ClaudeModelMapping |-> DefaultMapping]]
    /\ mgr = [i \in Inst |-> [version |-> 0, cursor |-> 0]]
    /\ sync = [i \in Inst |-> NewSync]
    /\ \E kind \in Seeds, l \in CloudLimits :
          /\ srv = Seed(kind)
          /\ svc = [Limit |-> l, seed |-> kind, applied |-> {}, own |-> {},
                    synced |-> FALSE]
    /\ req = IdleReq
    /\ held = NoneHeld
    /\ reloaded = FALSE
    /\ pow = IdlePow
    /\ last = NoOp

SpecCloud == InitCloud /\ [][NextCloud]_vars

\* The accounts and config items the server holds, not deleted
Pending == {p \in Recognized \cap DOMAIN srv.items : ~srv.items[p].Deleted}

\* C35: the manager's version is never at or above the version of an accounts
\* or config item that the server holds and that this gateway has neither
\* applied nor written itself, whatever the limit.
C35_PullComplete ==
    \A p \in Pending :
        srv.items[p].Version <= mgr[Primary].version
            => srv.items[p].Version \in svc.applied \cup svc.own

\* What the code keeps: the version never exceeds the server's latest
\* version, and with a limit that covers everything pending no pull moves the
\* version past an item it did not apply.
PullWithinLatest ==
    /\ mgr[Primary].version <= srv.latest
    /\ svc.Limit >= Cardinality(DOMAIN Seed(svc.seed).items) + 2 =>
          \A p \in Pending :
              (srv.items[p].Version <= mgr[Primary].version /\ svc.own = {})
                  => srv.items[p].Version \in svc.applied

\* A pull with limit 1 has just moved the version to the reported
\* latest_version, past the config item that was not in the answer
C35_Passed ==
    /\ svc.Limit = 1
    /\ last.op = "Delta" /\ last.ok
    /\ configPath \in Pending
    /\ svc.applied = {} /\ svc.own = {}
    /\ mgr[Primary].version >= srv.items[configPath].Version
    /\ cfg[Primary].ClaudeModelMapping = DefaultMapping


\* The roster R of the claim: the one of the cloud accounts item when another
\* client wrote one before the start, else the one of the start-up
\* configuration
CloudRoster == IF svc.seed = "accounts" THEN <<AcctC>> ELSE StartRoster

\* C36: whenever the cloud holds an accounts item, its roster is exactly R,
\* whatever max_active_accounts is; no roster is edited locally in SpecCloud.
C36_PushKeepsRoster ==
    accountsPath \in DOMAIN srv.items =>
        srv.items[accountsPath].Metadata = Stored(AccountsMeta(CloudRoster))

\* What the code keeps: the cloud accounts item holds R or, when the gateway
\* wrote it, the roster the pool kept, which is part of R and has
\* max_active_accounts entries when 0 < max_active_accounts < len(R).
PushStoresPoolRoster ==
    accountsPath \in DOMAIN srv.items =>
        IF svc.seed = "accounts"
        THEN srv.items[accountsPath].Metadata = Stored(AccountsMeta(CloudRoster))
        ELSE /\ srv.items[accountsPath].Metadata =
                   Stored(AccountsMeta(pool[Primary].accounts))
             /\ SeqRange(pool[Primary].accounts) \subseteq SeqRange(StartRoster)
             /\ Len(pool[Primary].accounts) =
                   IF /\ cfg[Primary].MaxActiveAccounts > 0
                      /\ cfg[Primary].MaxActiveAccounts < Len(StartRoster)
                   THEN cfg[Primary].MaxActiveAccounts ELSE Len(StartRoster)

\* InitialSync has succeeded with max_active_accounts = 1 and the cloud
\* accounts item holds one account of the two of the configuration file
C36_Lost ==
    /\ svc.synced /\ svc.seed = "empty"
    /\ cfg[Primary].MaxActiveAccounts = 1
    /\ accountsPath \in DOMAIN srv.items
    /\ Len(srv.items[accountsPath].Metadata.accounts[1]) = 1


\* C37: with one gateway and no other writer (the server was empty at the
\* start), once a sync has succeeded no Upsert is answered with a conflict
\* and no ResolveConflict is needed.
C37_NoSelfConflict ==
    (svc.seed = "empty" /\ svc.synced) =>
        /\ last.op = "Upsert" => last.kind # "conflict"
        /\ last.op # "Resolve"

\* What the code keeps: the base_version of every Upsert is the manager's
\* version, which after a successful sync is the version of the item written
\* last, and the first InitialSync against an empty server meets no conflict.
UpsertBaseIsManagerVersion ==
    /\ (last.op = "Upsert" /\ last.ret.how # "none") =>
          last.ret.calls[1].base = last.prev.version
    /\ (svc.seed = "empty" /\ sync[Primary].pc = "idle" /\ svc.synced) =>
          /\ mgr[Primary].version = srv.latest
          /\ mgr[Primary].version = srv.items[configPath].Version
          /\ srv.items[accountsPath].Version < mgr[Primary].version
    /\ (svc.seed = "empty" /\ ~svc.synced /\ last.op = "Upsert") =>
          last.kind = "ok"

\* The first tick after a successful InitialSync against the empty server:
\* nothing changed locally or remotely, and the accounts upsert, sent with
\* the manager's version as base_version, was answered 409 with the version
\* of the accounts item
C37_Conflicted ==
    /\ svc.seed = "empty" /\ svc.synced
    /\ last.op = "Upsert" /\ last.kind = "conflict"
    /\ sync[Primary].which = accountsPath
    /\ sync[Primary].ce = <<srv.items[accountsPath].Version>>
    /\ sync[Primary].calls[1].base = srv.latest
    /\ sync[Primary].calls[1].meta = AccountsMeta(pool[Primary].accounts)
    /\ srv.items[accountsPath].Metadata = Stored(sync[Primary].calls[1].meta)


\* upsertWithConflictRetry has just returned nil through the conflict path
\* for the accounts path
ResolvedAccounts ==
    /\ last.op = "Resolve" /\ last.ret.how = "ok"
    /\ Len(last.ret.calls) = 4
    /\ last.ret.calls[4].path = accountsPath

\* C38: when upsertWithConflictRetry for the accounts path returns nil
\* through the conflict path, the roster its ResolveConflict request carried,
\* which the server stores, is the pool's roster at that moment.
C38_ResolveStoresCurrentRoster ==
    ResolvedAccounts =>
        last.ret.calls[4].meta = AccountsMeta(pool[Primary].accounts)

\* What the code keeps: the ResolveConflict request carries the metadata of
\* the Upsert, the snapshot taken before the recovery pull.
ResolveStoresSnapshot ==
    ResolvedAccounts =>
        /\ last.ret.calls[4].meta = last.ret.calls[1].meta
        /\ last.ret.calls[4].meta.accounts = <<StartRoster>>
           \/ last.ret.calls[4].meta = AccountsMeta(<<AcctB>>)

\* The recovery pull applied roster [B] to the pool and the ResolveConflict
\* that followed stored the snapshot [A, B] taken before it
C38_Overwritten ==
    /\ ResolvedAccounts
    /\ pool[Primary].accounts = <<AcctB>>
    /\ last.ret.calls[4].meta = AccountsMeta(StartRoster)
    /\ last.ret.calls[2].op = "ListItems"


-----------------------------------------------------------------------------
(* SpecHold: concurrent requests, each acquiring an account, using it and  *)
(* releasing it (the handlers' deferred Release), while Reload is called   *)
(* by the sync manager.  Every method holds p.mu for its whole body, so    *)
(* each call is one step.  svc.h[r] is what request r holds: acct is <<>>  *)
(* or the account Acquire returned, fresh is TRUE while no Reload has      *)
(* happened since that Acquire; svc.crossed is TRUE once a Reload has      *)
(* happened while some request was holding an account.                     *)

NumHolders == 2
Holders == 1..NumHolders

HoldRosters == { <<AcctA>>, <<AcctB>>, <<AcctA, AcctB>> }

NotHolding == [acct |-> <<>>, fresh |-> FALSE]

HoldAcquire(r) ==
    /\ svc.h[r].acct = <<>>
    /\ \E o \in Acquire(pool[Primary], {}) :
          /\ pool' = [pool EXCEPT ![Primary] = o.pool]
          /\ svc' = [svc EXCEPT !.h[r] = IF o.ok THEN [acct |-> o.acct, fresh |-> TRUE]
                                         ELSE NotHolding]
          /\ last' = [op |-> "Acquire", holder |-> r, acct |-> o.acct]
    /\ UNCHANGED <<cfg, mgr, sync, srv, req, held, reloaded, pow>>

HoldRelease(r) ==
    /\ svc.h[r].acct # <<>>
    /\ pool' = [pool EXCEPT ![Primary] = Release(@, svc.h[r].acct)]
    /\ svc' = [svc EXCEPT !.h[r] = NotHolding]
    /\ last' = [op |-> "Release", holder |-> r, acct |-> svc.h[r].acct]
    /\ UNCHANGED <<cfg, mgr, sync, srv, req, held, reloaded, pow>>

HoldReload(accounts) ==
    /\ \E p \in reloadLocked(pool[Primary], accounts, pool[Primary].refresh, 0) :
          pool' = [pool EXCEPT ![Primary] = p]
    /\ svc' = [h |-> [r \in Holders |-> [svc.h[r] EXCEPT !.fresh = FALSE]],
               crossed |-> svc.crossed \/ \E r \in Holders : svc.h[r].acct # <<>>]
    /\ last' = [op |-> "Reload", holder |-> 0, acct |-> <<>>]
    /\ UNCHANGED <<cfg, mgr, sync, srv, req, held, reloaded, pow>>

NextHold ==
    \/ \E r \in Holders : HoldAcquire(r)
    \/ \E r \in Holders : HoldRelease(r)
    \/ \E accounts \in HoldRosters : HoldReload(accounts)

InitHold ==
    /\ \E p \in NewPool(<<AcctA, AcctB>>, FALSE, 0) :
          pool = [i \in Inst |-> IF i = Primary THEN p ELSE EmptyPool]
    /\ cfg = [i \in Inst |-> [Refresh |-> FALSE, MaxActiveAccounts |-> 0,
                              ClaudeModelMapping |-> DefaultMapping]]
    /\ mgr = [i \in Inst |-> [version |-> 0, cursor |-> 0]]
    /\ sync = [i \in Inst |-> NewSync]
    /\ srv = EmptySrv
    /\ req = IdleReq
    /\ held = NoneHeld
    /\ reloaded = FALSE
    /\ pow = IdlePow
    /\ svc = [h |-> [r \in Holders |-> NotHolding], crossed |-> FALSE]
    /\ last = NoOp

SpecHold == InitHold /\ [][NextHold]_vars

\* The requests that hold account id, acquired after the most recent Reload
FreshHolders(id) ==
    {r \in Holders : /\ svc.h[r].acct # <<>>
                     /\ AccountID(svc.h[r].acct[1]) = id
                     /\ svc.h[r].fresh}

\* C39: if some request acquired account X after the most recent Reload and
\* has not released it, the counter entry of X is at least 1.
C39_LiveHolderCounted ==
    \A id \in IdUniverse :
        FreshHolders(id) # {} => Count(pool[Primary].active, id) >= 1

\* What the code keeps: while no Reload has happened during a holding, the
\* counter of every account is the number of requests holding it; and the
\* counter is never negative and has no zero entry.
HoldersCountedWithoutReload ==
    /\ ~svc.crossed =>
          \A id \in IdUniverse :
              Count(pool[Primary].active, id) =
                  Cardinality({r \in Holders : /\ svc.h[r].acct # <<>>
                                               /\ AccountID(svc.h[r].acct[1]) = id})
    /\ \A id \in DOMAIN pool[Primary].active : pool[Primary].active[id] >= 1

\* A request that acquired its account before a Reload has just released it,
\* and another request, which acquired the same account after the most recent
\* Reload and still holds it, is left without a counter entry
C39_Cancelled ==
    /\ last.op = "Release"
    /\ \E r \in Holders :
          /\ r # last.holder
          /\ svc.h[r].acct = last.acct
          /\ svc.h[r].fresh
          /\ AccountID(last.acct[1]) \notin DOMAIN pool[Primary].active


\* C40: in OpenAIStream no upstream completion request, stream retry or JSON
\* fallback, is made once anything has been written to the client: while the
\* loop is still going to make a request nothing has been written, and so no
\* content is sent twice.
C40_NoRequestAfterWrite ==
    /\ ~svc.late
    /\ svc.pc = "turn" => svc.w = << >>
    /\ (Responded /\ Delivers(svc.w)) => CountLines(svc.w, FinishChunk) = 1

\* C40 witness: two attempts were retried having written nothing, the third
\* got no SSE data and the JSON fallback delivered the text in one chunk.
C40_Witness ==
    /\ Responded /\ svc.attempt = 2
    /\ svc.json
    /\ Len(svc.w) = 3
    /\ svc.w[1].content = <<<<"answer ">>>>
    /\ ~svc.late

====
